---- MODULE Spec2Model ----
(***************************************************************************)
(* sbctool: the telemetry pipeline of the dashboard and the connections.   *)
(*                                                                         *)
(*   tui.rs           TuiApp: the shared system-info slot, the shared log  *)
(*                    buffer, add_log, update_system_info, the run loop    *)
(*   log_collector.rs LogCollector: tier selection and the polling loops   *)
(*   ssh_session.rs   SSHSession: the persistent session, the log stream   *)
(*   system_info.rs   SystemInfoCollector: the snapshot collection         *)
(*   main.rs          the `sbctool ssh` and `sbctool adb` commands         *)
(*                                                                         *)
(* Specifications:                                                         *)
(*   Spec        the dashboard loop and one log collector (a polling tier  *)
(*               or the streaming tail) sharing the log buffer             *)
(*   SpecSys     the dashboard loop and the system-info writer sharing     *)
(*               the system-info slot                                      *)
(*   SpecAddLog  sequences of TuiApp::add_log from an empty buffer         *)
(*   SpecFill    a journald collector polling a busy target                *)
(*   SpecCollect SystemInfoCollector::collect_system_info over the probe   *)
(*               outcomes                                                  *)
(*   SpecChip    collect_system_info over the device-tree and cpuinfo      *)
(*               answers that decide the chip label                        *)
(*   SpecMemory  collect_system_info on devices of different memory sizes  *)
(*   SpecSession the callers of one persistent SSHSession                  *)
(*   SpecResolve a collector without a session executing commands          *)
(*   SpecAdb     one run of the `sbctool adb` command                      *)
(*   SpecSsh     one SSH connection opened by main or by SSHSession::new   *)
(*   SpecUptime  parse_uptime_from_proc over a range of uptimes            *)
(*   SpecUname   collect_system_info over `uname -a` lines of 12 to 14     *)
(*               tokens                                                    *)
(*   SpecLevels  a collector of each tier parsing lines of its log format  *)
(*   SpecTier    a LogCollector from start_log_collection on, built with   *)
(*               or without a persistent session                           *)
(*   SpecLocks   the dashboard loop, the system-info writer and a polling  *)
(*               collector sharing both locks                              *)
(*   FairLocks   the same three tasks under fair scheduling                *)
(***************************************************************************)
EXTENDS Integers, Sequences, FiniteSets, TLC

\* ---------------------------------------------------------------- bounds
\* polling cycles (or stream reads) of the log collector in Spec
MaxCycles == 2
\* lines of remote output per query or per stream read in Spec
MaxLines == 2
\* key events the dashboard handles before it only idles or quits
MaxKeys == 1
\* replacements of the system-info slot
MaxSnapshots == 2
\* add_log calls in SpecAddLog beyond the buffer capacity
ExtraAppends == 3
\* polling cycles of the collector in SpecFill
FillCycles == 6
\* commands each caller runs on the persistent session in SpecSession
MaxSessionCommands == 2
\* commands a subprocess collector executes
MaxCommands == 2
\* whole days of the longest uptime
MaxDays == 2
\* polling cycles of the collector in SpecLocks
LockCycles == 2
\* lines of remote output per query in SpecLocks
LockLines == 2
\* cycles (or stream reads) of the collector in SpecLevels
MaxLevelCycles == 2
\* lines of remote output per cycle in SpecLevels
MaxLevelLines == 2

\* ------------------------------------------------------ program constants
\* tui.rs:65  "Keep only last 100 logs"
LogCapacity == 100
\* log_collector.rs:144  logs.truncate(20)
AndroidKeep == 20
\* log_collector.rs:149  journalctl -n 20
QueryWindow == 20

\* ---------------------------------------------------------------- helpers
Min(a, b) == IF a < b THEN a ELSE b

RECURSIVE Reverse(_)
Reverse(s) == IF s = <<>> THEN <<>> ELSE Append(Reverse(Tail(s)), Head(s))

\* Vec::truncate(n): keeps the first n elements
Truncate(s, n) == SubSeq(s, 1, Min(Len(s), n))

\* Vec::drain(0..n): removes the first n elements
Drain(s, n) == SubSeq(s, n + 1, Len(s))

\* ------------------------------------------------------------- log entries
\* tui.rs LogEntry {timestamp, level, message}.  The message is kept by its
\* kind: "line" (parsed from remote line idx of cycle cyc of collector src),
\* "failure" (the "Failed to get ... logs: {e}" text), "refresh", "exit".
Entry(src, level, msg, cyc, idx) ==
    [src |-> src, level |-> level, msg |-> msg, cyc |-> cyc, idx |-> idx]

VARIABLES
    logs,          \* TuiApp.logs: the Vec<LogEntry> behind the mutex
    logs_lock,     \* holder of the log-buffer mutex: "none", "dash", "lc"
    system_info,   \* TuiApp.system_info: the Option<SystemInfo> behind the mutex
    sys_lock,      \* holder of the system-info mutex: "none", "dash", "si"
    should_quit,   \* TuiApp.should_quit
    d_pc,          \* the dashboard loop's position in TuiApp::run
    d_keys,        \* key events handled so far
    d_view,        \* the fields render_system_info has read in this render
    lc_conf,       \* how the log collector was started: "android", "linux",
                   \* "linux_session" (new_with_ssh_session), "stream"
    lc_tier,       \* the selected tier: "none", "android", "journald", "syslog", "stream"
    lc_pc,         \* the log collector's position
    lc_cyc,        \* cycles (or reads) started so far
    lc_path,       \* index of the syslog candidate being tried
    lc_batch,      \* entries of this cycle still to be pushed
    lc_res,        \* result of this cycle's query: "none", "ok", "err", "eof"
    lc_fail,       \* ghost: some remote command or read of this cycle failed
    lc_yield,      \* ghost: some command of this cycle returned a line that parses
    lc_pushed,     \* ghost: entries this collector appended in this cycle
    si_pc,         \* the system-info writer's position in update_system_info
    si_cyc,        \* collection cycles completed by the system-info writer
    appended,      \* ghost: every entry handed to add_log, in call order
    c_conn,        \* SystemInfoCollector.connection_type
    c_session,     \* SystemInfoCollector.ssh_session is Some
    c_env,         \* how the target answers each probe command of one collection
    c_pc,          \* collect_system_info: "ready" or "done"
    c_out,         \* what collect_system_info came to: status and SystemInfo
    ss_lock,       \* holder of the SSHSession.session mutex: "none" or a caller
    ss_pc,         \* each caller's position in its call on the session
    ss_chan,       \* the callers whose channel on the session is open
    ss_left,       \* commands each caller has still to run
    r_conn,        \* a subprocess collector's connection_type
    r_target,      \* a subprocess collector's target
    r_env,         \* what `ssh -G`, $USER and `adb devices` answer at present
    r_n,           \* commands the collector has executed
    r_lookups,     \* ghost: resolution commands run so far
    r_used,        \* ghost: the endpoint each command was sent to
    s_path,        \* who opens the SSH connection: "main" or "session"
    s_in,          \* target, environment and credentials of one connection
    s_pc,          \* position in opening the connection
    s_res,         \* the resolved endpoint, or the resolution error
    s_tried,       \* ghost: the authentication methods tried, in order
    a_serial,      \* the -s argument of `sbctool adb`: None or Some(serial)
    a_env,         \* USB discovery, USB open and server answers
    a_pc,          \* position in the Adb command
    a_route,       \* ghost: the transports used, in order
    u_in,          \* the output of `cat /proc/uptime`
    u_out          \* parse_uptime_from_proc's result, None before the call

vars == <<logs, logs_lock, system_info, sys_lock, should_quit, d_pc, d_keys,
          d_view, lc_conf, lc_tier, lc_pc, lc_cyc, lc_path, lc_batch, lc_res,
          lc_fail, lc_yield, lc_pushed, si_pc, si_cyc, appended,
          c_conn, c_session, c_env, c_pc, c_out,
          ss_lock, ss_pc, ss_chan, ss_left,
          r_conn, r_target, r_env, r_n, r_lookups, r_used,
          s_path, s_in, s_pc, s_res, s_tried,
          a_serial, a_env, a_pc, a_route, u_in, u_out>>

dashVars == <<should_quit, d_pc, d_keys, d_view>>
lcVars == <<lc_conf, lc_tier, lc_pc, lc_cyc, lc_path, lc_batch, lc_res,
            lc_fail, lc_yield, lc_pushed>>
collectVars == <<c_conn, c_session, c_env, c_pc, c_out>>
sessionVars == <<ss_lock, ss_pc, ss_chan, ss_left>>
resolveVars == <<r_conn, r_target, r_env, r_n, r_lookups, r_used>>
sshVars == <<s_path, s_in, s_pc, s_res, s_tried>>
adbVars == <<a_serial, a_env, a_pc, a_route>>
uptimeVars == <<u_in, u_out>>
endpointVars == <<resolveVars, sshVars, adbVars, uptimeVars>>
connVars == <<sessionVars, endpointVars>>
siVars == <<si_pc, si_cyc, collectVars, connVars>>
telemetryVars == <<logs, logs_lock, system_info, sys_lock, should_quit, d_pc,
                   d_keys, d_view, lc_conf, lc_tier, lc_pc, lc_cyc, lc_path,
                   lc_batch, lc_res, lc_fail, lc_yield, lc_pushed, si_pc,
                   si_cyc, appended>>

\* ------------------------------------------------------------------ mutex
\* a mutex that excludes nobody
CanLockAlways(lock) == TRUE

\* Mutex::lock: granted only when nobody holds the mutex
CanLock(lock) == lock = "none"

\* --------------------------------------------------------------- TuiApp
\* SystemInfo with every field produced by collection cycle n
Snapshot(n) ==
    [hostname |-> n, kernel |-> n, architecture |-> n, chip |-> n,
     cpu_info |-> n, memory |-> n, uptime |-> n, os_info |-> n]

\* add_log cutting the buffer at the wrong end: the newest entries are lost
AddLogKeepsOldest(buf, entry) == Truncate(Append(buf, entry), LogCapacity)

\* TuiApp::add_log on the buffer: push, then drain the oldest beyond 100
AddLog(buf, entry) ==
    LET pushed == Append(buf, entry)
    IN  IF Len(pushed) > LogCapacity
        THEN Drain(pushed, Len(pushed) - LogCapacity)
        ELSE pushed

\* render_system_info, first part: the Option test and hostname, kernel,
\* architecture (tui.rs:137-152).  An Option is a sequence of length <= 1.
ReadHead(slot) ==
    IF slot = <<>> THEN [some |-> FALSE, f |-> <<>>]
    ELSE [some |-> TRUE,
          f |-> <<slot[1].hostname, slot[1].kernel, slot[1].architecture>>]

\* render_system_info, second part: chip, cpu, memory, uptime, os through the
\* same reference (tui.rs:154-179); nothing when the Option test saw None
ReadRest(slot, head) ==
    IF ~head.some THEN [some |-> FALSE, f |-> <<>>]
    ELSE [some |-> TRUE,
          f |-> <<slot[1].chip, slot[1].cpu_info, slot[1].memory,
                  slot[1].uptime, slot[1].os_info>>]

\* the entries TuiApp::run hands to add_log
RefreshEntry(n) == Entry("tui", "INFO", "refresh", n, 0)
ExitEntry(n) == Entry("tui", "INFO", "exit", n, 0)

\* ---------------------------------------------------- dashboard: TuiApp::run
\* terminal.draw -> ui -> render_system_info: lock().unwrap()
RenderSysLock ==
    /\ d_pc = "draw"
    /\ CanLock(sys_lock)
    /\ sys_lock' = "dash"
    /\ d_view' = <<>>
    /\ d_pc' = "rs_locked"
    /\ UNCHANGED <<logs, logs_lock, system_info, should_quit, d_keys,
                   lcVars, siVars, appended>>

RenderSysHead ==
    /\ d_pc = "rs_locked"
    /\ d_view' = <<ReadHead(system_info)>>
    /\ d_pc' = "rs_head"
    /\ UNCHANGED <<logs, logs_lock, system_info, sys_lock, should_quit, d_keys,
                   lcVars, siVars, appended>>

\* a render that keeps the system-info guard until the frame is drawn
RenderSysRestKeepsGuard ==
    /\ d_pc = "rs_head"
    /\ d_view' = Append(d_view, ReadRest(system_info, d_view[1]))
    /\ d_pc' = "rl_wait"
    /\ UNCHANGED <<logs, logs_lock, system_info, sys_lock, should_quit, d_keys,
                   lcVars, siVars, appended>>

\* the rest of the fields, then the guard is dropped at the function's end
RenderSysRest ==
    /\ d_pc = "rs_head"
    /\ d_view' = Append(d_view, ReadRest(system_info, d_view[1]))
    /\ sys_lock' = "none"
    /\ d_pc' = "rl_wait"
    /\ UNCHANGED <<logs, logs_lock, system_info, should_quit, d_keys,
                   lcVars, siVars, appended>>

\* render_logs: lock().unwrap()
RenderLogsLock ==
    /\ d_pc = "rl_wait"
    /\ CanLock(logs_lock)
    /\ logs_lock' = "dash"
    /\ d_pc' = "rl_locked"
    /\ UNCHANGED <<logs, system_info, sys_lock, should_quit, d_keys, d_view,
                   lcVars, siVars, appended>>

\* the newest 20 entries are laid out, the guard is dropped
RenderLogs ==
    /\ d_pc = "rl_locked"
    /\ logs_lock' = "none"
    /\ d_pc' = "poll"
    /\ UNCHANGED <<logs, system_info, sys_lock, should_quit, d_keys, d_view,
                   lcVars, siVars, appended>>

\* event::poll(100 ms): no event, a non-key event or any other key;
\* should_quit is false, the loop goes on
PollIdle ==
    /\ d_pc = "poll"
    /\ ~should_quit
    /\ d_pc' = "draw"
    /\ UNCHANGED <<logs, logs_lock, system_info, sys_lock, should_quit, d_keys,
                   d_view, lcVars, siVars, appended>>

\* KeyCode::Char('r')
KeyRefresh ==
    /\ d_pc = "poll"
    /\ d_keys < MaxKeys
    /\ d_keys' = d_keys + 1
    /\ d_pc' = "al_refresh"
    /\ UNCHANGED <<logs, logs_lock, system_info, sys_lock, should_quit, d_view,
                   lcVars, siVars, appended>>

\* KeyCode::Char('q') | KeyCode::Esc
KeyQuit ==
    /\ d_pc = "poll"
    /\ d_keys' = d_keys + 1
    /\ d_pc' = "al_quit"
    /\ UNCHANGED <<logs, logs_lock, system_info, sys_lock, should_quit, d_view,
                   lcVars, siVars, appended>>

\* add_log: self.logs.lock()
AddLogLock ==
    /\ d_pc \in {"al_refresh", "al_quit"}
    /\ CanLock(logs_lock)
    /\ logs_lock' = "dash"
    /\ d_pc' = IF d_pc = "al_refresh" THEN "al_refresh_locked" ELSE "al_quit_locked"
    /\ UNCHANGED <<logs, system_info, sys_lock, should_quit, d_keys, d_view,
                   lcVars, siVars, appended>>

\* an 'r' handler that also empties the system-info slot to force a new
\* collection
AddLogRefreshResets ==
    /\ d_pc = "al_refresh_locked"
    /\ logs' = AddLog(logs, RefreshEntry(d_keys))
    /\ logs_lock' = "none"
    /\ system_info' = <<>>
    /\ d_pc' = "draw"
    /\ UNCHANGED <<sys_lock, should_quit, d_keys, d_view,
                   lcVars, siVars, appended>>

\* add_log: push, drain, guard dropped; 'r' goes on with the loop
AddLogRefresh ==
    /\ d_pc = "al_refresh_locked"
    /\ logs' = AddLog(logs, RefreshEntry(d_keys))
    /\ logs_lock' = "none"
    /\ d_pc' = "draw"
    /\ UNCHANGED <<system_info, sys_lock, should_quit, d_keys, d_view,
                   lcVars, siVars, appended>>

\* a 'q' handler without should_quit = true and without the break
AddLogQuitGoesOn ==
    /\ d_pc = "al_quit_locked"
    /\ logs' = AddLog(logs, ExitEntry(d_keys))
    /\ logs_lock' = "none"
    /\ d_pc' = "draw"
    /\ UNCHANGED <<system_info, sys_lock, should_quit, d_keys, d_view,
                   lcVars, siVars, appended>>

\* add_log: push, drain, guard dropped; 'q' sets should_quit and breaks,
\* run returns Ok(())
AddLogQuit ==
    /\ d_pc = "al_quit_locked"
    /\ logs' = AddLog(logs, ExitEntry(d_keys))
    /\ logs_lock' = "none"
    /\ should_quit' = TRUE
    /\ d_pc' = "done"
    /\ UNCHANGED <<system_info, sys_lock, d_keys, d_view,
                   lcVars, siVars, appended>>

Dashboard ==
    \/ RenderSysLock \/ RenderSysHead \/ RenderSysRest
    \/ RenderLogsLock \/ RenderLogs
    \/ PollIdle \/ KeyRefresh \/ KeyQuit
    \/ AddLogLock \/ AddLogRefresh \/ AddLogQuit

\* ------------------------------------ system-info writer: update_system_info
\* self.system_info.lock()
UpdateLock ==
    /\ si_pc = "idle"
    /\ si_cyc < MaxSnapshots
    /\ CanLock(sys_lock)
    /\ sys_lock' = "si"
    /\ si_pc' = "locked"
    /\ UNCHANGED <<logs, logs_lock, system_info, dashVars, lcVars, si_cyc,
                   appended, collectVars, connVars>>

\* a writer that keeps its guard after the replacement
UpdateStoreKeepsGuard ==
    /\ si_pc = "locked"
    /\ system_info' = <<Snapshot(si_cyc + 1)>>
    /\ si_cyc' = si_cyc + 1
    /\ si_pc' = "idle"
    /\ UNCHANGED <<logs, logs_lock, sys_lock, dashVars, lcVars, appended,
                   collectVars, connVars>>

\* *system_info = Some(info); the guard is dropped
UpdateStore ==
    /\ si_pc = "locked"
    /\ system_info' = <<Snapshot(si_cyc + 1)>>
    /\ sys_lock' = "none"
    /\ si_cyc' = si_cyc + 1
    /\ si_pc' = "idle"
    /\ UNCHANGED <<logs, logs_lock, dashVars, lcVars, appended, collectVars,
                   connVars>>

SysInfoWriter == UpdateLock \/ UpdateStore

\* ------------------------------------------------------------ remote output
\* A remote line by what its parser makes of it: "junk" does not parse,
\* "line" parses to an entry.  The level a parser infers from the text is
\* taken from the line's position: odd lines mention an error, even ones
\* do not.
LineKinds == {"junk", "line"}

LevelOf(idx) == IF idx % 2 = 1 THEN "ERROR" ELSE "INFO"

RECURSIVE SeqsUpTo(_, _)
SeqsUpTo(S, n) ==
    IF n = 0 THEN {<<>>}
    ELSE LET shorter == SeqsUpTo(S, n - 1)
         IN  shorter \cup {Append(s, x) : s \in {t \in shorter : Len(t) = n - 1}, x \in S}

\* the text a query or a stream read can return
Outputs == SeqsUpTo(LineKinds, MaxLines)

\* Result<String>: Err, or Ok with the output
CommandResults == {[ok |-> FALSE, out |-> <<>>]} \cup {[ok |-> TRUE, out |-> o] : o \in Outputs}

\* parse_android_log_line / parse_journald_log_line / parse_syslog_line:
\* Option<LogEntry> of line idx
ParseLine(src, cyc, idx, kind) ==
    IF kind = "junk" THEN <<>>
    ELSE <<Entry(src, LevelOf(idx), "line", cyc, idx)>>

\* for line in output.lines() { if let Some(e) = parse(line) { logs.push(e) } }
RECURSIVE ParseFrom(_, _, _, _)
ParseFrom(src, cyc, out, i) ==
    IF i > Len(out) THEN <<>>
    ELSE ParseLine(src, cyc, i, out[i]) \o ParseFrom(src, cyc, out, i + 1)

\* get_android_logs on Ok output: parse, reverse, truncate(20)
AndroidBatch(cyc, out) ==
    Truncate(Reverse(ParseFrom("android", cyc, out, 1)), AndroidKeep)

\* get_journald_logs on Ok output
JournaldBatch(cyc, out) == ParseFrom("journald", cyc, out, 1)

\* the synthetic entry of a failed cycle: level "ERROR", "Failed to get ..."
ErrorEntry(src, cyc) == Entry(src, "ERROR", "failure", cyc, 0)

\* the legacy log candidates, in order (log_collector.rs:162-166)
SyslogPaths == <<"/var/log/syslog", "/var/log/messages", "/var/log/kern.log">>

\* ------------------------------------------------- log collector: polling
\* a new cycle begins: the loop body is entered
BeginCycle ==
    /\ lc_cyc' = lc_cyc + 1
    /\ lc_path' = 1
    /\ lc_batch' = <<>>
    /\ lc_res' = "none"
    /\ lc_fail' = FALSE
    /\ lc_yield' = FALSE
    /\ lc_pushed' = <<>>

\* start_log_collection: is_android -> collect_android_logs
StartAndroid ==
    /\ lc_pc = "start"
    /\ lc_conf = "android"
    /\ lc_tier' = "android"
    /\ lc_pc' = "query"
    /\ BeginCycle
    /\ UNCHANGED <<logs, logs_lock, system_info, sys_lock, dashVars, lc_conf,
                   siVars, appended>>

\* start_log_collection: otherwise collect_linux_logs, which probes
\* has_journald ("which journalctl") once and enters the tier's loop
StartLinux ==
    /\ lc_pc = "start"
    /\ lc_conf \in {"linux", "linux_session"}
    /\ \E found \in BOOLEAN :
         lc_tier' = IF found THEN "journald" ELSE "syslog"
    /\ lc_pc' = "query"
    /\ BeginCycle
    /\ UNCHANGED <<logs, logs_lock, system_info, sys_lock, dashVars, lc_conf,
                   siVars, appended>>

\* the match on get_android_logs().await
QueryAndroid ==
    /\ lc_pc = "query"
    /\ lc_tier = "android"
    /\ \E r \in CommandResults :
         /\ lc_res' = IF r.ok THEN "ok" ELSE "err"
         /\ lc_fail' = ~r.ok
         /\ lc_yield' = (r.ok /\ \E i \in 1..Len(r.out) : r.out[i] # "junk")
         /\ lc_batch' = IF r.ok THEN AndroidBatch(lc_cyc, r.out)
                        ELSE <<ErrorEntry("android", lc_cyc)>>
    /\ lc_pc' = "lock"
    /\ UNCHANGED <<logs, logs_lock, system_info, sys_lock, dashVars, lc_conf,
                   lc_tier, lc_cyc, lc_path, lc_pushed, siVars, appended>>

\* the match on get_journald_logs().await, the command's result drawn from R
JournaldQuery(R) ==
    /\ lc_pc = "query"
    /\ lc_tier = "journald"
    /\ \E r \in R :
         /\ lc_res' = IF r.ok THEN "ok" ELSE "err"
         /\ lc_fail' = ~r.ok
         /\ lc_yield' = (r.ok /\ \E i \in 1..Len(r.out) : r.out[i] # "junk")
         /\ lc_batch' = IF r.ok THEN JournaldBatch(lc_cyc, r.out)
                        ELSE <<ErrorEntry("journald", lc_cyc)>>
    /\ lc_pc' = "lock"
    /\ UNCHANGED <<logs, logs_lock, system_info, sys_lock, dashVars, lc_conf,
                   lc_tier, lc_cyc, lc_path, lc_pushed, siVars, appended>>

QueryJournald == JournaldQuery(CommandResults)

\* get_syslog_logs, one candidate: "tail -n 20 <path>".  What the loop over
\* the candidates does with the command's result r:
\*   "yield"  Ok and at least one line parses: return Ok(logs)
\*   "next"   otherwise, and a candidate is left: try it
\*   "none"   otherwise: Err("No syslog files found")
\* (first the loop without its !logs.is_empty() test)
SyslogStepNoEmptyCheck(r, cyc, path) ==
    IF r.ok THEN "yield"
    ELSE IF path < Len(SyslogPaths) THEN "next"
    ELSE "none"

\* (and the loop giving up at the first candidate whose command fails)
SyslogStepStopsAtFailure(r, cyc, path) ==
    IF r.ok /\ ParseFrom("syslog", cyc, r.out, 1) # <<>> THEN "yield"
    ELSE IF r.ok /\ path < Len(SyslogPaths) THEN "next"
    ELSE "none"

SyslogStep(r, cyc, path) ==
    IF r.ok /\ ParseFrom("syslog", cyc, r.out, 1) # <<>> THEN "yield"
    ELSE IF path < Len(SyslogPaths) THEN "next"
    ELSE "none"

QuerySyslog ==
    /\ lc_pc = "query"
    /\ lc_tier = "syslog"
    /\ \E r \in CommandResults :
         LET step == SyslogStep(r, lc_cyc, lc_path)
         IN  /\ lc_fail' = (lc_fail \/ ~r.ok)
             /\ lc_yield' = (r.ok /\ \E i \in 1..Len(r.out) : r.out[i] # "junk")
             /\ lc_path' = IF step = "next" THEN lc_path + 1 ELSE lc_path
             /\ lc_res' = CASE step = "yield" -> "ok"
                            [] step = "next" -> "none"
                            [] OTHER -> "err"
             /\ lc_batch' = CASE step = "yield" -> ParseFrom("syslog", lc_cyc, r.out, 1)
                              [] step = "next" -> <<>>
                              [] OTHER -> <<ErrorEntry("syslog", lc_cyc)>>
             /\ lc_pc' = IF step = "next" THEN "query" ELSE "lock"
    /\ UNCHANGED <<logs, logs_lock, system_info, sys_lock, dashVars, lc_conf,
                   lc_tier, lc_cyc, lc_pushed, siVars, appended>>

\* log_sender.lock()
CollectorLock ==
    /\ lc_pc = "lock"
    /\ CanLock(logs_lock)
    /\ logs_lock' = "lc"
    /\ lc_pc' = "push"
    /\ UNCHANGED <<logs, system_info, sys_lock, dashVars, lc_conf, lc_tier,
                   lc_cyc, lc_path, lc_batch, lc_res, lc_fail, lc_yield,
                   lc_pushed, siVars, appended>>

\* sender.push(log), for each entry of the result, or the error entry
CollectorPush ==
    /\ lc_pc = "push"
    /\ lc_batch # <<>>
    /\ logs' = Append(logs, Head(lc_batch))
    /\ lc_pushed' = Append(lc_pushed, Head(lc_batch))
    /\ lc_batch' = Tail(lc_batch)
    /\ UNCHANGED <<logs_lock, system_info, sys_lock, dashVars, lc_conf, lc_tier,
                   lc_pc, lc_cyc, lc_path, lc_res, lc_fail, lc_yield, siVars,
                   appended>>

\* a guard that lives until the end of the loop body: held across the sleep
CollectorUnlockAfterSleep ==
    /\ lc_pc = "push"
    /\ lc_batch = <<>>
    /\ lc_pc' = "sleep"
    /\ UNCHANGED <<logs, logs_lock, system_info, sys_lock, dashVars, lc_conf,
                   lc_tier, lc_cyc, lc_path, lc_batch, lc_res, lc_fail, lc_yield,
                   lc_pushed, siVars, appended>>

\* the guard is dropped at the end of the if-let block, then sleep(..).await
CollectorUnlock ==
    /\ lc_pc = "push"
    /\ lc_batch = <<>>
    /\ logs_lock' = "none"
    /\ lc_pc' = "sleep"
    /\ UNCHANGED <<logs, system_info, sys_lock, dashVars, lc_conf, lc_tier,
                   lc_cyc, lc_path, lc_batch, lc_res, lc_fail, lc_yield,
                   lc_pushed, siVars, appended>>

\* a loop that probes for the journal daemon again before every cycle
WakeReprobe(limit) ==
    /\ lc_pc = "sleep"
    /\ lc_cyc < limit
    /\ lc_pc' = "query"
    /\ BeginCycle
    /\ \E found \in BOOLEAN :
         lc_tier' = IF lc_tier = "android" THEN "android"
                    ELSE IF found THEN "journald" ELSE "syslog"
    /\ UNCHANGED <<logs, logs_lock, system_info, sys_lock, dashVars, lc_conf,
                   siVars, appended>>

\* the sleep is over: the loop's next iteration (at most limit cycles are
\* explored)
Wake(limit) ==
    /\ lc_pc = "sleep"
    /\ lc_cyc < limit
    /\ lc_pc' = "query"
    /\ BeginCycle
    /\ UNCHANGED <<logs, logs_lock, system_info, sys_lock, dashVars, lc_conf,
                   lc_tier, siVars, appended>>

CollectorWake == Wake(MaxCycles)

Polling ==
    \/ StartAndroid \/ StartLinux
    \/ QueryAndroid \/ QueryJournald \/ QuerySyslog
    \/ CollectorLock \/ CollectorPush \/ CollectorUnlock \/ CollectorWake

\* ------------------------------- log collector: SSHSession::start_log_stream
\* what channel.read returns: Ok(0), Err, or Ok(n) with the chunk's lines
StreamReads ==
    {[kind |-> "eof", out |-> <<>>], [kind |-> "err", out |-> <<>>]}
    \cup {[kind |-> "data", out |-> o] : o \in Outputs \ {<<>>}}

\* parse_journald_log_line over data.lines()
StreamBatch(cyc, out) == ParseFrom("stream", cyc, out, 1)

\* where the read loop goes on a read result: Ok(0) and Err both break, and
\* the function returns Ok(())
AfterRead(kind, batch) ==
    CASE kind \in {"eof", "err"} -> "returned"
      [] batch = <<>> -> "read"
      [] OTHER -> "s_lock"

\* session.lock().await; channel_session()?; channel.exec(..)?
StreamOpen ==
    /\ lc_pc = "start"
    /\ lc_conf = "stream"
    /\ lc_tier' = "stream"
    /\ \E opened \in BOOLEAN :
         /\ lc_pc' = IF opened THEN "read" ELSE "returned"
         /\ lc_res' = IF opened THEN "none" ELSE "err"
         /\ lc_fail' = ~opened
    /\ UNCHANGED <<logs, logs_lock, system_info, sys_lock, dashVars, lc_conf,
                   lc_cyc, lc_path, lc_batch, lc_yield, lc_pushed, siVars,
                   appended>>

\* match channel.read(&mut buffer)
StreamRead ==
    /\ lc_pc = "read"
    /\ \E r \in StreamReads :
         /\ r.kind = "data" => lc_cyc < MaxCycles
         /\ lc_cyc' = lc_cyc + 1
         /\ lc_res' = IF r.kind = "data" THEN "ok" ELSE r.kind
         /\ lc_fail' = (r.kind = "err")
         /\ lc_yield' = (\E i \in 1..Len(r.out) : r.out[i] # "junk")
         /\ lc_batch' = StreamBatch(lc_cyc + 1, r.out)
         /\ lc_pc' = AfterRead(r.kind, StreamBatch(lc_cyc + 1, r.out))
    /\ lc_pushed' = <<>>
    /\ UNCHANGED <<logs, logs_lock, system_info, sys_lock, dashVars, lc_conf,
                   lc_tier, lc_path, siVars, appended>>

\* log_sender.lock().await, once per parsed line
StreamLock ==
    /\ lc_pc = "s_lock"
    /\ CanLock(logs_lock)
    /\ logs_lock' = "lc"
    /\ lc_pc' = "s_push"
    /\ UNCHANGED <<logs, system_info, sys_lock, dashVars, lc_conf, lc_tier,
                   lc_cyc, lc_path, lc_batch, lc_res, lc_fail, lc_yield,
                   lc_pushed, siVars, appended>>

\* logs.push(entry); the guard is dropped at the end of the if-let block
StreamPush ==
    /\ lc_pc = "s_push"
    /\ logs' = Append(logs, Head(lc_batch))
    /\ lc_pushed' = Append(lc_pushed, Head(lc_batch))
    /\ lc_batch' = Tail(lc_batch)
    /\ logs_lock' = "none"
    /\ lc_pc' = IF Tail(lc_batch) = <<>> THEN "read" ELSE "s_lock"
    /\ UNCHANGED <<system_info, sys_lock, dashVars, lc_conf, lc_tier, lc_cyc,
                   lc_path, lc_res, lc_fail, lc_yield, siVars, appended>>

Streaming == StreamOpen \/ StreamRead \/ StreamLock \/ StreamPush

\* ======================================================== system_info.rs
\* ----------------------------------------------- what the target answers
\* The output of a probe is a string of a fixed vocabulary; the operators
\* below give, for the strings of the vocabulary, what the std string
\* functions of the code (trim, lines, split_whitespace, split, starts_with,
\* contains, parse, trim_matches) return on them.
UnameOut == "Linux sbc1 5.10.0 #1 SMP PREEMPT Mon Jan 1 00:00:00 UTC 2024 aarch64 GNU/Linux\n"
UnameLine == "Linux sbc1 5.10.0 #1 SMP PREEMPT Mon Jan 1 00:00:00 UTC 2024 aarch64 GNU/Linux"
\* `uname -a` of a kernel built without PREEMPT, as GNU coreutils prints it
\* (the operating system last) and as toybox prints it (the machine last)
UnameGnuOut == "Linux host 5.10.0 #1 SMP Mon Jan 1 00:00:00 UTC 2024 aarch64 GNU/Linux\n"
UnameGnuLine == "Linux host 5.10.0 #1 SMP Mon Jan 1 00:00:00 UTC 2024 aarch64 GNU/Linux"
UnameToyOut == "Linux host 5.10.0 #1 SMP Mon Jan 1 00:00:00 UTC 2024 aarch64\n"
UnameToyLine == "Linux host 5.10.0 #1 SMP Mon Jan 1 00:00:00 UTC 2024 aarch64"
HostnameOut == "sbc1\n"
\* lines of `logcat -d -v time` (and one in the threadtime layout of the
\* comment of parse_android_log_line)
LogcatFatalLine == "11-05 10:00:00.123 E/AndroidRuntime( 1234): FATAL EXCEPTION: main"
LogcatStartLine == "11-05 10:00:01.000 I/ActivityManager(  612): Start proc com.example for service"
LogcatThreadLine == "11-05 10:00:02.000 1234 1250 I ActivityManager: Displayed com.example/.Main"
LogcatShortLine == "11-05 10:00:03.000 W/Tag(12345): Low memory"
LogcatBeginLine == "--------- beginning of main"
\* lines of `journalctl -o short-iso`
JournalStartLine == "2025-09-05T18:49:25+0000 sbc1 systemd[1]: Started Session 1 of User stulluk."
JournalErrorLine == "2025-09-05T18:49:26+0000 sbc1 kernel: mmc0: error -110 whilst initialising SD card"
JournalWarnLine == "2025-09-05T18:49:27+0000 sbc1 kernel: Warning: under-voltage detected"
JournalCronLine == "2025-09-05T18:49:28+0000 sbc1 CRON[77]: (root) CMD (run-parts /etc/cron.hourly)"
JournalDebugLine == "2025-09-05T18:49:29+0000 sbc1 sshd[812]: debug1: rekeying"
JournalEmptyLine == "-- No entries --"
\* lines of /var/log/syslog
SyslogSshdLine == "Sep  5 18:49:25 sbc1 sshd[812]: Accepted publickey for root"
SyslogInfoLine == "Sep  5 18:49:26 sbc1 NetworkManager[400]: <info> device eth0 connected"
SyslogErrorLine == "Sep  5 18:49:27 sbc1 kernel: mmc0: error -110 whilst initialising SD card"
SyslogWarnLine == "Sep  5 18:49:28 sbc1 kernel: Warning: under-voltage detected"
SyslogOopsLine == "Sep  5 18:49:29 sbc1 kernel: Oops"
ModelOut == "Radxa ROCK 5B"
CompatibleOut == "radxa,rock-5b\\0rockchip,rk3588"
CpuArmOut == "processor : 0\nprocessor : 1\nCPU implementer : 0x41\nCPU architecture: 8"
CpuX86Out == "processor : 0\nmodel name : Intel Atom x5-Z8350"
CpuBroadcomOut == "processor : 0\nCPU implementer : 0x42\nCPU architecture: 8"
CpuQualcommOut == "processor : 0\nCPU implementer : 0x51\nCPU architecture: 8"
CpuSunxiOut == "processor : 0\nCPU implementer : 0x41\nHardware : Allwinner sun8i Family"
ModelBoardOut == "Rockchip RK3588 Board"
CompatibleSocOut == "rockchip,rk3588"
CompatiblePiOut == "raspberrypi,4-model-b\\0brcm,bcm2711"
MemBigOut == "MemTotal: 2097152 kB\nMemFree: 1048576 kB"
MemSmallOut == "MemTotal: 524288 kB\nMemFree: 1024 kB"
UptimeOut == "3661.25 7200.50"
OsReleaseOut == "NAME=\"Debian\"\nPRETTY_NAME=\"Debian GNU/Linux 12\""
LsbReleaseOut == "DISTRIB_ID=Ubuntu\nDISTRIB_DESCRIPTION=\"Ubuntu 22.04 LTS\""
UnameOsOut == "GNU/Linux"
ManufacturerOut == "Radxa"
ProductModelOut == "ROCK 5B"
BoardOut == "rk30sdk"
FreeOut == "total used free\nMem: 2005991424 1791692800 214298624"
MemOddOut == "MemTotal: 1958976 kB\nMemFree: 209276 kB"
FreeSmallOut == "total used free\nMem: 536870912 322572288 214298624"
UptimeCmdOut == "18:57:16 up 1:42, 0 users, load average: 1.09, 1.06, 1.02"
AndroidReleaseOut == "12"
BuildIdOut == "TQ3A.230805.001"

\* what the local `ssh -G <alias>` and `adb devices` print
SshGAlias == "user admin\nhostname 192.168.1.4\nport 22"
SshGMoved == "user admin\nhostname 192.168.1.9\nport 22"
SshGNoUser == "hostname 192.168.1.4\nport 22"
SshGFull == "user admin\nhostname 192.168.1.4\nport 2222\nidentityfile ~/.ssh/id_sbc"
DevicesNone == "List of devices attached"
DevicesOne == "List of devices attached\nR3CN90ABCDE\tdevice"
DevicesTwo == "List of devices attached\nemulator-5554\tdevice\nR3CN90ABCDE\tdevice"

\* ssh_session.rs:96  the message of a command that exits with a status
\* other than 0 (here: 1)
ExitStatusMessage == "Command failed with exit status: 1"
\* ssh_session.rs:82-91  the message of an error the channel operations
\* propagate with `?`; its text is the ssh2 library's
ChannelMessage == "channel failure"

\* the uptimes of SpecUptime, each as <<whole seconds, hundredths>>
UptimeValues ==
    {<<((d * 24 + h) * 60 + m) * 60 + sec, cs>> :
        d \in 0..MaxDays, h \in {0, 1, 23}, m \in {0, 1, 2, 59},
        sec \in {0, 1, 5, 59}, cs \in {0, 50, 99}}

\* the decimal text of an uptime, as the kernel prints it
F64Text(v) ==
    ToString(v[1]) \o "." \o (IF v[2] < 10 THEN "0" ELSE "") \o ToString(v[2])

\* the line of /proc/uptime: the uptime and the idle time
ProcUptimeText(v) == F64Text(v) \o " 7200.50"

\* str::trim
Trim(s) ==
    CASE s = UnameOut -> UnameLine
      [] s = UnameGnuOut -> UnameGnuLine
      [] s = UnameToyOut -> UnameToyLine
      [] s = HostnameOut -> "sbc1"
      [] s = " 0x41" -> "0x41"
      [] s = " 0x42" -> "0x42"
      [] s = " 0x51" -> "0x51"
      [] s = " Allwinner sun8i Family" -> "Allwinner sun8i Family"
      [] s = " 8" -> "8"
      [] s = " 0" -> "0"
      [] s = " 1" -> "1"
      [] s = " Intel Atom x5-Z8350" -> "Intel Atom x5-Z8350"
      [] s = " 1:42" -> "1:42"
      [] OTHER -> s

\* str::lines
Lines(s) ==
    CASE s = "" -> <<>>
      [] s = CpuArmOut -> <<"processor : 0", "processor : 1",
                            "CPU implementer : 0x41", "CPU architecture: 8">>
      [] s = CpuX86Out -> <<"processor : 0", "model name : Intel Atom x5-Z8350">>
      [] s = CpuBroadcomOut -> <<"processor : 0", "CPU implementer : 0x42",
                                 "CPU architecture: 8">>
      [] s = CpuQualcommOut -> <<"processor : 0", "CPU implementer : 0x51",
                                 "CPU architecture: 8">>
      [] s = CpuSunxiOut -> <<"processor : 0", "CPU implementer : 0x41",
                              "Hardware : Allwinner sun8i Family">>
      [] s = MemBigOut -> <<"MemTotal: 2097152 kB", "MemFree: 1048576 kB">>
      [] s = MemSmallOut -> <<"MemTotal: 524288 kB", "MemFree: 1024 kB">>
      [] s = MemOddOut -> <<"MemTotal: 1958976 kB", "MemFree: 209276 kB">>
      [] s = FreeSmallOut -> <<"total used free",
                               "Mem: 536870912 322572288 214298624">>
      [] s = OsReleaseOut -> <<"NAME=\"Debian\"",
                               "PRETTY_NAME=\"Debian GNU/Linux 12\"">>
      [] s = LsbReleaseOut -> <<"DISTRIB_ID=Ubuntu",
                                "DISTRIB_DESCRIPTION=\"Ubuntu 22.04 LTS\"">>
      [] s = FreeOut -> <<"total used free",
                          "Mem: 2005991424 1791692800 214298624">>
      [] s = SshGAlias -> <<"user admin", "hostname 192.168.1.4", "port 22">>
      [] s = SshGMoved -> <<"user admin", "hostname 192.168.1.9", "port 22">>
      [] s = SshGNoUser -> <<"hostname 192.168.1.4", "port 22">>
      [] s = SshGFull -> <<"user admin", "hostname 192.168.1.4", "port 2222",
                           "identityfile ~/.ssh/id_sbc">>
      [] s = DevicesOne -> <<"List of devices attached", "R3CN90ABCDE\tdevice">>
      [] s = DevicesTwo -> <<"List of devices attached",
                             "emulator-5554\tdevice", "R3CN90ABCDE\tdevice">>
      [] OTHER -> <<s>>

\* str::split_whitespace
SplitWhitespace(s) ==
    CASE s = "" -> <<>>
      [] s = UnameLine -> <<"Linux", "sbc1", "5.10.0", "#1", "SMP", "PREEMPT",
                            "Mon", "Jan", "1", "00:00:00", "UTC", "2024",
                            "aarch64", "GNU/Linux">>
      [] s = LogcatFatalLine -> <<"11-05", "10:00:00.123", "E/AndroidRuntime(",
                                  "1234):", "FATAL", "EXCEPTION:", "main">>
      [] s = LogcatStartLine -> <<"11-05", "10:00:01.000", "I/ActivityManager(",
                                  "612):", "Start", "proc", "com.example",
                                  "for", "service">>
      [] s = LogcatThreadLine -> <<"11-05", "10:00:02.000", "1234", "1250", "I",
                                   "ActivityManager:", "Displayed",
                                   "com.example/.Main">>
      [] s = LogcatShortLine -> <<"11-05", "10:00:03.000", "W/Tag(12345):",
                                  "Low", "memory">>
      [] s = LogcatBeginLine -> <<"---------", "beginning", "of", "main">>
      [] s = SyslogSshdLine -> <<"Sep", "5", "18:49:25", "sbc1", "sshd[812]:",
                                 "Accepted", "publickey", "for", "root">>
      [] s = SyslogInfoLine -> <<"Sep", "5", "18:49:26", "sbc1",
                                 "NetworkManager[400]:", "<info>", "device",
                                 "eth0", "connected">>
      [] s = SyslogErrorLine -> <<"Sep", "5", "18:49:27", "sbc1", "kernel:",
                                  "mmc0:", "error", "-110", "whilst",
                                  "initialising", "SD", "card">>
      [] s = SyslogWarnLine -> <<"Sep", "5", "18:49:28", "sbc1", "kernel:",
                                 "Warning:", "under-voltage", "detected">>
      [] s = SyslogOopsLine -> <<"Sep", "5", "18:49:29", "sbc1", "kernel:",
                                 "Oops">>
      [] s = UnameGnuLine -> <<"Linux", "host", "5.10.0", "#1", "SMP", "Mon",
                               "Jan", "1", "00:00:00", "UTC", "2024",
                               "aarch64", "GNU/Linux">>
      [] s = UnameToyLine -> <<"Linux", "host", "5.10.0", "#1", "SMP", "Mon",
                               "Jan", "1", "00:00:00", "UTC", "2024",
                               "aarch64">>
      [] s = "Error: " \o ExitStatusMessage ->
             <<"Error:", "Command", "failed", "with", "exit", "status:", "1">>
      [] s = "Error: " \o ChannelMessage -> <<"Error:", "channel", "failure">>
      [] s = "MemTotal: 2097152 kB" -> <<"MemTotal:", "2097152", "kB">>
      [] s = "MemTotal: 524288 kB" -> <<"MemTotal:", "524288", "kB">>
      [] s = "MemTotal: 1958976 kB" -> <<"MemTotal:", "1958976", "kB">>
      [] s = "Mem: 536870912 322572288 214298624" ->
             <<"Mem:", "536870912", "322572288", "214298624">>
      [] s = "Mem: 2005991424 1791692800 214298624" ->
             <<"Mem:", "2005991424", "1791692800", "214298624">>
      [] s = UptimeOut -> <<"3661.25", "7200.50">>
      [] \E v \in UptimeValues : s = ProcUptimeText(v) ->
             <<F64Text(CHOOSE v \in UptimeValues : s = ProcUptimeText(v)),
               "7200.50">>
      [] OTHER -> <<s>>

\* str::split(':')
SplitColon(s) ==
    CASE s = "processor : 0" -> <<"processor ", " 0">>
      [] s = "processor : 1" -> <<"processor ", " 1">>
      [] s = "CPU implementer : 0x41" -> <<"CPU implementer ", " 0x41">>
      [] s = "CPU implementer : 0x42" -> <<"CPU implementer ", " 0x42">>
      [] s = "CPU implementer : 0x51" -> <<"CPU implementer ", " 0x51">>
      [] s = "Hardware : Allwinner sun8i Family" ->
             <<"Hardware ", " Allwinner sun8i Family">>
      [] s = "CPU architecture: 8" -> <<"CPU architecture", " 8">>
      [] s = "model name : Intel Atom x5-Z8350" ->
             <<"model name ", " Intel Atom x5-Z8350">>
      [] OTHER -> <<s>>

\* str::split('=')
SplitEquals(s) ==
    CASE s = "NAME=\"Debian\"" -> <<"NAME", "\"Debian\"">>
      [] s = "PRETTY_NAME=\"Debian GNU/Linux 12\"" ->
             <<"PRETTY_NAME", "\"Debian GNU/Linux 12\"">>
      [] s = "DISTRIB_ID=Ubuntu" -> <<"DISTRIB_ID", "Ubuntu">>
      [] s = "DISTRIB_DESCRIPTION=\"Ubuntu 22.04 LTS\"" ->
             <<"DISTRIB_DESCRIPTION", "\"Ubuntu 22.04 LTS\"">>
      [] OTHER -> <<s>>

\* str::trim_matches('"')
TrimQuotes(s) ==
    CASE s = "\"Debian\"" -> "Debian"
      [] s = "\"Debian GNU/Linux 12\"" -> "Debian GNU/Linux 12"
      [] s = "\"Ubuntu 22.04 LTS\"" -> "Ubuntu 22.04 LTS"
      [] OTHER -> s

\* str::split("up")
SplitUp(s) ==
    CASE s = UptimeCmdOut ->
             <<"18:57:16 ", " 1:42, 0 users, load average: 1.09, 1.06, 1.02">>
      [] OTHER -> <<s>>

\* str::split(',').next(): the part before the first comma
BeforeComma(s) ==
    CASE s = " 1:42, 0 users, load average: 1.09, 1.06, 1.02" -> " 1:42"
      [] OTHER -> s

\* str::replace('\0', " ")
ReplaceNul(s) ==
    CASE s = CompatibleOut -> "radxa,rock-5b rockchip,rk3588"
      [] s = CompatiblePiOut -> "raspberrypi,4-model-b brcm,bcm2711"
      [] OTHER -> s

\* the keywords the code tests with starts_with that the line starts with
PrefixesOf(s) ==
    CASE s \in {"processor : 0", "processor : 1"} -> {"processor"}
      [] s \in {"CPU implementer : 0x41", "CPU implementer : 0x42",
                 "CPU implementer : 0x51"} -> {"CPU implementer"}
      [] s = "Hardware : Allwinner sun8i Family" -> {"Hardware"}
      [] s = "CPU architecture: 8" -> {"CPU architecture"}
      [] s = "model name : Intel Atom x5-Z8350" -> {"model name"}
      [] s \in {"MemTotal: 2097152 kB", "MemTotal: 524288 kB",
                 "MemTotal: 1958976 kB"} -> {"MemTotal"}
      [] s \in {"Mem: 2005991424 1791692800 214298624",
                 "Mem: 536870912 322572288 214298624"} -> {"Mem:"}
      [] s = "PRETTY_NAME=\"Debian GNU/Linux 12\"" -> {"PRETTY_NAME"}
      [] s = "DISTRIB_DESCRIPTION=\"Ubuntu 22.04 LTS\"" -> {"DISTRIB_DESCRIPTION"}
      [] OTHER -> {}

\* str::starts_with
StartsWith(s, p) == p \in PrefixesOf(s)

\* the keywords the code tests with contains that occur in the string
KeywordsIn(s) ==
    CASE s \in {"radxa,rock-5b rockchip,rk3588", "rockchip,rk3588"} ->
             {"rockchip", "rk3588"}
      [] s \in {"R3CN90ABCDE\tdevice", "emulator-5554\tdevice"} -> {"\tdevice"}
      [] OTHER -> {}

\* str::contains
Contains(s, k) == k \in KeywordsIn(s)

\* str::parse::<u64>; -1 stands for Err
ParseU64(s) ==
    CASE s = "2097152" -> 2097152
      [] s = "524288" -> 524288
      [] s = "2005991424" -> 2005991424
      [] s = "1958976" -> 1958976
      [] s = "536870912" -> 536870912
      [] OTHER -> -1

\* str::parse::<f64>; the value is held in hundredths, -1 stands for Err
ParseF64(s) ==
    CASE s = "3661.25" -> 366125
      [] \E v \in UptimeValues : s = F64Text(v) ->
             LET v == CHOOSE w \in UptimeValues : s = F64Text(w)
             IN  v[1] * 100 + v[2]
      [] OTHER -> -1

\* --------------------------------------------------- running one command
\* how the target answers one probe: "ok" with its standard output, "exit"
\* when the command exits with a status other than 0 (a file that is not
\* there), "down" when the transport fails
Answer(st, out) == [st |-> st, out |-> out]
Answers(outs) == {Answer("ok", o) : o \in outs} \cup {Answer("exit", "")}
AnswersOrDown(outs) == Answers(outs) \cup {Answer("down", "")}
NotAsked == {Answer("exit", "")}

\* Result<String>: Ok(val) or Err(val)
Ok(val) == [ok |-> TRUE, val |-> val]
Err(val) == [ok |-> FALSE, val |-> val]

\* Option<String>
None == <<>>
Some(val) == <<val>>

\* the remote shell running `<command> 2>/dev/null || echo '<alt>'`
ShellOrEcho(a, alt) == IF a.st = "exit" THEN Answer("ok", alt) ELSE a

\* SSHSession::execute_command
SessionExecuteCommand(a) ==
    CASE a.st = "ok" -> Ok(Trim(a.out))
      [] a.st = "exit" -> Err(ExitStatusMessage)
      [] OTHER -> Err(ChannelMessage)

\* a batch that leaves failed commands out of its results
ExecuteMultipleCommandsSkipsFailed(answers) ==
    LET done == SelectSeq(answers, LAMBDA a : SessionExecuteCommand(a).ok)
    IN  [i \in DOMAIN done |-> SessionExecuteCommand(done[i]).val]

\* SSHSession::execute_multiple_commands
ExecuteMultipleCommands(answers) ==
    [i \in DOMAIN answers |->
        LET r == SessionExecuteCommand(answers[i])
        IN  IF r.ok THEN r.val ELSE "Error: " \o r.val]

\* SystemInfoCollector::execute_command without a persistent session:
\* execute_ssh_command or execute_adb_command, one subprocess per command
ExecuteCommand(a) ==
    IF a.st = "ok" THEN Ok(Trim(a.out)) ELSE Err("command failed")

\* ------------------------------------------------------------ the parsers
\* the uname tokens 0 and 2
KernelOf(parts) ==
    IF Len(parts) > 2 THEN parts[1] \o " " \o parts[3] ELSE parts[1]

\* the uname token 12
ArchitectureOf(parts) ==
    IF Len(parts) > 12 THEN parts[13] ELSE "unknown"

ParseChipFromCompatible(compatible) ==
    LET c == ReplaceNul(compatible)
    IN  CASE Contains(c, "rockchip") ->
               (CASE Contains(c, "rk3399") -> Some("Rockchip RK3399")
                  [] Contains(c, "rk3568") -> Some("Rockchip RK3568")
                  [] Contains(c, "rk3588") -> Some("Rockchip RK3588")
                  [] OTHER -> Some("Rockchip"))
          [] Contains(c, "amlogic") ->
               (CASE Contains(c, "g12") -> Some("Amlogic G12")
                  [] Contains(c, "s905") -> Some("Amlogic S905")
                  [] Contains(c, "s922") -> Some("Amlogic S922")
                  [] OTHER -> Some("Amlogic"))
          [] Contains(c, "allwinner") -> Some("Allwinner")
          [] Contains(c, "broadcom") -> Some("Broadcom")
          [] Contains(c, "qualcomm") -> Some("Qualcomm")
          [] Contains(c, "nvidia") -> Some("Nvidia Jetson")
          [] OTHER -> None

\* the match on the CPU implementer code in parse_chip_from_cpuinfo
ImplementerChip(code) ==
    CASE code = "0x41" -> Some("ARM")
      [] code = "0x42" -> Some("Broadcom")
      [] code = "0x51" -> Some("Qualcomm")
      [] OTHER -> None

\* the second field of a line split at ':', trimmed
ColonValue(line) ==
    LET parts == SplitColon(line)
    IN  IF Len(parts) > 1 THEN Some(Trim(parts[2])) ELSE None

RECURSIVE ChipFromLines(_)
ChipFromLines(lines) ==
    IF lines = <<>> THEN None
    ELSE LET line == Head(lines)
             hw == IF StartsWith(line, "Hardware") THEN ColonValue(line)
                   ELSE None
             im == IF StartsWith(line, "CPU implementer")
                   THEN ColonValue(line) ELSE None
         IN  IF hw # None /\ hw[1] # "" /\ hw[1] # "BCM2835" THEN hw
             ELSE IF im # None /\ ImplementerChip(im[1]) # None
                  THEN ImplementerChip(im[1])
                  ELSE ChipFromLines(Tail(lines))

ParseChipFromCpuinfo(cpuinfo) == ChipFromLines(Lines(cpuinfo))

\* a parser that asks the compatible table before the model
ParseChipCompatibleFirst(model, compatible, cpuinfo) ==
    IF /\ Trim(compatible) # ""
       /\ Trim(compatible) # "No compatible"
       /\ ParseChipFromCompatible(Trim(compatible)) # None
    THEN ParseChipFromCompatible(Trim(compatible))
    ELSE IF Trim(model) # "" /\ Trim(model) # "No model"
         THEN Some(Trim(model))
         ELSE ParseChipFromCpuinfo(cpuinfo)

ParseChipFromBatchResults(model, compatible, cpuinfo) ==
    IF Trim(model) # "" /\ Trim(model) # "No model" THEN Some(Trim(model))
    ELSE IF /\ Trim(compatible) # ""
            /\ Trim(compatible) # "No compatible"
            /\ ParseChipFromCompatible(Trim(compatible)) # None
         THEN ParseChipFromCompatible(Trim(compatible))
         ELSE ParseChipFromCpuinfo(cpuinfo)

\* the first loop of parse_cpu_from_cpuinfo: the model name, if a line
\* gives one
RECURSIVE ModelNameFromLines(_)
ModelNameFromLines(lines) ==
    IF lines = <<>> THEN None
    ELSE LET line == Head(lines)
         IN  IF /\ StartsWith(line, "model name") \/ StartsWith(line, "Processor")
                /\ ColonValue(line) # None
             THEN ColonValue(line)
             ELSE ModelNameFromLines(Tail(lines))

\* the second loop: the number of lines that start with "processor"
RECURSIVE ProcessorCount(_)
ProcessorCount(lines) ==
    IF lines = <<>> THEN 0
    ELSE (IF StartsWith(Head(lines), "processor") THEN 1 ELSE 0)
         + ProcessorCount(Tail(lines))

\* the second loop: the value of the last line with the key, if any
RECURSIVE LastValue(_, _, _)
LastValue(lines, key, found) ==
    IF lines = <<>> THEN found
    ELSE LET line == Head(lines)
             here == IF /\ ~StartsWith(line, "processor")
                        /\ StartsWith(line, key)
                        /\ ColonValue(line) # None
                     THEN ColonValue(line) ELSE found
         IN  LastValue(Tail(lines), key, here)

\* "Build CPU description"
CpuDescription(implementer, architecture, processor_count) ==
    LET d1 == IF implementer = None THEN ""
              ELSE CASE implementer[1] = "0x41" -> "ARM"
                     [] implementer[1] = "0x42" -> "Broadcom"
                     [] implementer[1] = "0x51" -> "Qualcomm"
                     [] OTHER -> "Unknown"
        d2 == IF architecture = None THEN d1
              ELSE (IF d1 # "" THEN d1 \o " " ELSE d1)
                   \o "v" \o architecture[1]
        d3 == IF processor_count > 0
              THEN (IF d2 # "" THEN d2 \o " " ELSE d2)
                   \o "(" \o ToString(processor_count) \o " cores)"
              ELSE d2
    IN  IF d3 = "" THEN ToString(processor_count) \o " cores" ELSE d3

ParseCpuFromCpuinfo(cpuinfo) ==
    LET lines == Lines(cpuinfo)
        name == ModelNameFromLines(lines)
    IN  IF name # None THEN name[1]
        ELSE CpuDescription(LastValue(lines, "CPU implementer", None),
                            LastValue(lines, "CPU architecture", None),
                            ProcessorCount(lines))

\* kB to "<n> GB" or "<n> MB"
FormatMemory(kb) ==
    LET mb == kb \div 1024
        gb == mb \div 1024
    IN  IF gb > 0 THEN ToString(gb) \o " GB" ELSE ToString(mb) \o " MB"

\* the loop over the lines of /proc/meminfo
RECURSIVE MemTotalFromLines(_)
MemTotalFromLines(lines) ==
    IF lines = <<>> THEN None
    ELSE LET parts == SplitWhitespace(Head(lines))
         IN  IF StartsWith(Head(lines), "MemTotal") /\ Len(parts) > 1
             THEN LET kb == ParseU64(parts[2])
                  IN  Some(FormatMemory(IF kb < 0 THEN 0 ELSE kb))
             ELSE MemTotalFromLines(Tail(lines))

ParseMemoryFromMeminfo(meminfo) ==
    LET m == MemTotalFromLines(Lines(meminfo))
    IN  IF m # None THEN m[1] ELSE "Unknown"

\* a formatting that takes the minutes of the day, not of the hour
FormatUptimeMinutesOfDay(seconds) ==
    LET days == seconds \div 8640000
        hours == (seconds % 8640000) \div 360000
        minutes == (seconds % 8640000) \div 6000
    IN  IF days > 0
        THEN ToString(days) \o "d " \o ToString(hours) \o "h "
             \o ToString(minutes) \o "m"
        ELSE IF hours > 0
             THEN ToString(hours) \o "h " \o ToString(minutes) \o "m"
             ELSE ToString(minutes) \o "m"

\* the f64 seconds (in hundredths) to "{d}d {h}h {m}m", "{h}h {m}m" or
\* "{m}m": (seconds / 86400.0) as u32, ((seconds % 86400.0) / 3600.0) as u32,
\* ((seconds % 3600.0) / 60.0) as u32
FormatUptime(seconds) ==
    LET days == seconds \div 8640000
        hours == (seconds % 8640000) \div 360000
        minutes == (seconds % 360000) \div 6000
    IN  IF days > 0
        THEN ToString(days) \o "d " \o ToString(hours) \o "h "
             \o ToString(minutes) \o "m"
        ELSE IF hours > 0
             THEN ToString(hours) \o "h " \o ToString(minutes) \o "m"
             ELSE ToString(minutes) \o "m"

ParseUptimeFromProc(uptime) ==
    LET parts == SplitWhitespace(uptime)
    IN  IF parts # <<>> /\ ParseF64(parts[1]) >= 0
        THEN FormatUptime(ParseF64(parts[1]))
        ELSE "Unknown"

\* the loop over the lines of a KEY=value file: the value of the first
\* line that starts with the key
RECURSIVE ValueOfKey(_, _)
ValueOfKey(lines, key) ==
    IF lines = <<>> THEN None
    ELSE LET parts == SplitEquals(Head(lines))
         IN  IF StartsWith(Head(lines), key) /\ Len(parts) > 1
             THEN Some(TrimQuotes(parts[2]))
             ELSE ValueOfKey(Tail(lines), key)

ParseOsFromRelease(os_release) ==
    LET v == ValueOfKey(Lines(os_release), "PRETTY_NAME")
    IN  IF v # None THEN v[1] ELSE "Unknown"

\* ------------------------------------------- the sequential field probes
\* Each returns Result<String>: Ok(val) or Err(val).
GetChipInfoAndroid(env) ==
    LET manufacturer == ExecuteCommand(env.manufacturer)
        model == ExecuteCommand(env.product_model)
        board == ExecuteCommand(env.board)
        c1 == IF manufacturer.ok THEN Trim(manufacturer.val) ELSE ""
        m == IF model.ok THEN Trim(model.val) ELSE ""
        c2 == IF model.ok
              THEN (IF c1 # "" THEN c1 \o " " ELSE c1) \o m
              ELSE c1
        c3 == IF /\ board.ok
                 /\ Trim(board.val) # ""
                 /\ Trim(board.val) # m
                 /\ c2 # ""
              THEN c2 \o " (" \o Trim(board.val) \o ")"
              ELSE c2
    IN  IF c3 # "" THEN Ok(c3)
        ELSE IF board.ok THEN Ok(Trim(board.val))
             ELSE Err("Could not determine chip information")

GetChipInfoLinux(env) ==
    LET model == ExecuteCommand(env.model)
        compatible == ExecuteCommand(env.compatible)
        cpuinfo == ExecuteCommand(env.cpuinfo)
    IN  IF model.ok /\ Trim(model.val) # "" /\ Trim(model.val) # "No model"
        THEN Ok(Trim(model.val))
        ELSE IF /\ compatible.ok
                /\ Trim(compatible.val) # ""
                /\ Trim(compatible.val) # "No compatible"
                /\ ParseChipFromCompatible(Trim(compatible.val)) # None
             THEN Ok(ParseChipFromCompatible(Trim(compatible.val))[1])
             ELSE IF cpuinfo.ok /\ ParseChipFromCpuinfo(cpuinfo.val) # None
                  THEN Ok(ParseChipFromCpuinfo(cpuinfo.val)[1])
                  ELSE Err("Could not determine chip information")

GetChipInfo(conn, env) ==
    IF conn = "adb" THEN GetChipInfoAndroid(env) ELSE GetChipInfoLinux(env)

GetCpuInfo(env) ==
    LET cpuinfo == ExecuteCommand(env.cpuinfo)
    IN  IF cpuinfo.ok THEN Ok(ParseCpuFromCpuinfo(cpuinfo.val)) ELSE cpuinfo

\* the loop over the lines of `free`: the first "Mem:" line whose second
\* token parses
RECURSIVE FreeTotalFromLines(_)
FreeTotalFromLines(lines) ==
    IF lines = <<>> THEN None
    ELSE LET parts == SplitWhitespace(Head(lines))
         IN  IF /\ StartsWith(Head(lines), "Mem:")
                /\ Len(parts) > 1
                /\ ParseU64(parts[2]) >= 0
             THEN Some(FormatMemory(ParseU64(parts[2])))
             ELSE FreeTotalFromLines(Tail(lines))

GetMemoryInfo(conn, env) ==
    LET free == ExecuteCommand(env.free)
        meminfo == ExecuteCommand(env.meminfo)
        fromFree == IF free.ok THEN FreeTotalFromLines(Lines(free.val))
                    ELSE None
        fromMeminfo == IF meminfo.ok
                       THEN MemTotalFromLines(Lines(meminfo.val)) ELSE None
    IN  IF conn = "adb"
        THEN (IF fromFree # None THEN Ok(fromFree[1])
              ELSE IF fromMeminfo # None THEN Ok(fromMeminfo[1])
                   ELSE Ok("Unknown"))
        ELSE (IF meminfo.ok THEN Ok(ParseMemoryFromMeminfo(meminfo.val))
              ELSE meminfo)

\* the "up" part of the output of `uptime`, up to its first comma
UpPart(output) ==
    LET pieces == SplitUp(output)
    IN  IF Len(pieces) > 1 /\ Trim(BeforeComma(pieces[2])) # ""
        THEN Some(Trim(BeforeComma(pieces[2])))
        ELSE None

GetUptime(conn, env) ==
    LET cmd == ExecuteCommand(env.uptime_cmd)
        proc == ExecuteCommand(env.uptime)
        parts == SplitWhitespace(proc.val)
        parsed == proc.ok /\ parts # <<>> /\ ParseF64(parts[1]) >= 0
    IN  IF conn = "adb"
        THEN (IF cmd.ok /\ UpPart(cmd.val) # None THEN Ok(UpPart(cmd.val)[1])
              ELSE IF parsed THEN Ok(FormatUptime(ParseF64(parts[1])))
                   ELSE Ok("Unknown"))
        ELSE (IF proc.ok THEN Ok(ParseUptimeFromProc(proc.val)) ELSE proc)

GetOsInfoAndroid(env) ==
    LET version == ExecuteCommand(env.release)
        build == ExecuteCommand(env.build_id)
        o1 == IF version.ok THEN "Android " \o Trim(version.val) ELSE ""
        o2 == IF build.ok /\ Trim(build.val) # ""
              THEN (IF o1 # "" THEN o1 \o " " ELSE o1)
                   \o "(" \o Trim(build.val) \o ")"
              ELSE o1
    IN  IF o2 # "" THEN Ok(o2) ELSE Ok("Unknown")

\* the loop over the three sources of get_os_info
RECURSIVE OsFromSources(_)
OsFromSources(sources) ==
    IF sources = <<>> THEN Ok("Unknown")
    ELSE LET output == ExecuteCommand(Head(sources).answer)
             key == Head(sources).key
         IN  IF output.ok /\ key = "" THEN Ok(Trim(output.val))
             ELSE IF output.ok /\ ValueOfKey(Lines(output.val), key) # None
                  THEN Ok(ValueOfKey(Lines(output.val), key)[1])
                  ELSE OsFromSources(Tail(sources))

GetOsInfoLinux(env) ==
    OsFromSources(<<[answer |-> env.os_release, key |-> "PRETTY_NAME"],
                    [answer |-> env.lsb_release, key |-> "DISTRIB_DESCRIPTION"],
                    [answer |-> env.uname_o, key |-> ""]>>)

GetOsInfo(conn, env) ==
    IF conn = "adb" THEN GetOsInfoAndroid(env) ELSE GetOsInfoLinux(env)

\* Result::unwrap_or_else(|_| "Unknown")
UnwrapOrUnknown(r) == IF r.ok THEN r.val ELSE "Unknown"

\* Result::ok
OkOption(r) == IF r.ok THEN Some(r.val) ELSE None

\* ------------------------------------------------ collect_system_info
NoInfo ==
    [hostname |-> "", kernel |-> "", architecture |-> "", chip |-> None,
     cpu_info |-> "", memory |-> "", uptime |-> "", os_info |-> ""]

\* what a call came to: "ok" with the SystemInfo, "err" for a returned
\* error, "panic" for an index out of bounds
Returned(info) == [status |-> "ok", info |-> info]
ReturnedErr == [status |-> "err", info |-> NoInfo]
Panicked == [status |-> "panic", info |-> NoInfo]
NotCalled == [status |-> "none", info |-> NoInfo]

\* the eight commands of the batch, in order
BatchAnswers(env) ==
    <<env.uname, env.hostname,
      ShellOrEcho(env.model, "No model"),
      ShellOrEcho(env.compatible, "No compatible"),
      env.cpuinfo, env.meminfo, env.uptime,
      ShellOrEcho(env.os_release, "No os-release")>>

CollectSystemInfoBatch(env) ==
    LET results == ExecuteMultipleCommands(BatchAnswers(env))
        parts == SplitWhitespace(results[1])
    IN  IF Len(results) < 8 THEN Panicked
        ELSE IF parts = <<>> THEN Panicked
        ELSE Returned(
            [hostname |-> Trim(results[2]),
             kernel |-> KernelOf(parts),
             architecture |-> ArchitectureOf(parts),
             chip |-> ParseChipFromBatchResults(results[3], results[4],
                                                results[5]),
             cpu_info |-> ParseCpuFromCpuinfo(results[5]),
             memory |-> ParseMemoryFromMeminfo(results[6]),
             uptime |-> ParseUptimeFromProc(results[7]),
             os_info |-> ParseOsFromRelease(results[8])])

CollectSystemInfoSequential(conn, env) ==
    LET uname == ExecuteCommand(env.uname)
        hostname == ExecuteCommand(env.hostname)
        parts == SplitWhitespace(uname.val)
    IN  IF ~uname.ok \/ ~hostname.ok THEN ReturnedErr
        ELSE IF parts = <<>> THEN Panicked
        ELSE Returned(
            [hostname |-> Trim(hostname.val),
             kernel |-> KernelOf(parts),
             architecture |-> ArchitectureOf(parts),
             chip |-> OkOption(GetChipInfo(conn, env)),
             cpu_info |-> UnwrapOrUnknown(GetCpuInfo(env)),
             memory |-> UnwrapOrUnknown(GetMemoryInfo(conn, env)),
             uptime |-> UnwrapOrUnknown(GetUptime(conn, env)),
             os_info |-> UnwrapOrUnknown(GetOsInfo(conn, env))])

\* collect_system_info with a persistent SSH session
CollectBatch ==
    /\ c_pc = "ready"
    /\ c_session
    /\ c_out' = CollectSystemInfoBatch(c_env)
    /\ c_pc' = "done"
    /\ UNCHANGED <<telemetryVars, c_conn, c_session, c_env, connVars>>

\* collect_system_info without one
CollectSequential ==
    /\ c_pc = "ready"
    /\ ~c_session
    /\ c_out' = CollectSystemInfoSequential(c_conn, c_env)
    /\ c_pc' = "done"
    /\ UNCHANGED <<telemetryVars, c_conn, c_session, c_env, connVars>>

\* ------------------------------------------------ the targets of SpecCollect
\* an environment gives the answer of the target to every probe; a probe
\* the strategy never runs is NotAsked
ProbeEnv(shared, linuxOnly, androidOnly) ==
    [uname : shared[1], hostname : shared[2], model : shared[3],
     compatible : shared[4], cpuinfo : shared[5], meminfo : shared[6],
     uptime : shared[7], os_release : shared[8],
     lsb_release : linuxOnly[1], uname_o : linuxOnly[2],
     manufacturer : androidOnly[1], product_model : androidOnly[2],
     board : androidOnly[3], free : androidOnly[4],
     uptime_cmd : androidOnly[5], release : androidOnly[6],
     build_id : androidOnly[7]]

NoLinuxProbes == <<NotAsked, NotAsked>>
NoAndroidProbes ==
    <<NotAsked, NotAsked, NotAsked, NotAsked, NotAsked, NotAsked, NotAsked>>

\* a target nothing is asked of
SilentEnv ==
    CHOOSE e \in ProbeEnv(<<NotAsked, NotAsked, NotAsked, NotAsked, NotAsked,
                            NotAsked, NotAsked, NotAsked>>,
                          NoLinuxProbes, NoAndroidProbes) : TRUE

\* the targets of the batched strategy (SSH with a persistent session)
BatchEnvs ==
    ProbeEnv(<<Answers({"", UnameOut}), Answers({HostnameOut}),
               AnswersOrDown({ModelOut}), AnswersOrDown({CompatibleOut}),
               Answers({CpuArmOut, CpuX86Out}),
               Answers({MemBigOut, MemSmallOut}), Answers({UptimeOut}),
               AnswersOrDown({OsReleaseOut})>>,
             NoLinuxProbes, NoAndroidProbes)

\* the targets of the sequential strategy over SSH
LinuxEnvs ==
    ProbeEnv(<<Answers({"", UnameOut}), Answers({HostnameOut}),
               Answers({ModelOut}), Answers({CompatibleOut}),
               Answers({CpuArmOut, CpuX86Out}),
               Answers({MemBigOut, MemSmallOut}), Answers({UptimeOut}),
               Answers({OsReleaseOut})>>,
             <<Answers({LsbReleaseOut}), Answers({UnameOsOut})>>,
             NoAndroidProbes)

\* the targets of the sequential strategy over ADB
AndroidEnvs ==
    ProbeEnv(<<Answers({"", UnameOut}), Answers({HostnameOut}),
               NotAsked, NotAsked,
               Answers({CpuArmOut, CpuX86Out}),
               Answers({MemBigOut, MemSmallOut}), Answers({UptimeOut}),
               NotAsked>>,
             NoLinuxProbes,
             <<Answers({ManufacturerOut}), Answers({ProductModelOut}),
               Answers({BoardOut}), Answers({FreeOut}),
               Answers({UptimeCmdOut}), Answers({AndroidReleaseOut}),
               Answers({BuildIdOut})>>)

\* the device-tree and cpuinfo answers of the targets of SpecChip: a model
\* or compatible file may be missing ("exit") or empty
ChipProbes ==
    <<Answers({UnameOut}), Answers({HostnameOut}),
      AnswersOrDown({ModelOut, ModelBoardOut, ""}),
      AnswersOrDown({CompatibleOut, CompatibleSocOut, CompatiblePiOut, ""}),
      Answers({CpuArmOut, CpuBroadcomOut, CpuQualcommOut, CpuSunxiOut,
               CpuX86Out}),
      Answers({MemBigOut}), Answers({UptimeOut}), Answers({OsReleaseOut})>>

ChipBatchEnvs == ProbeEnv(ChipProbes, NoLinuxProbes, NoAndroidProbes)

ChipLinuxProbes == <<Answers({LsbReleaseOut}), Answers({UnameOsOut})>>
ChipLinuxEnvs == ProbeEnv(ChipProbes, ChipLinuxProbes, NoAndroidProbes)

\* the targets of SpecMemory: /proc/meminfo, and on Android the `free` of
\* the same device, which prints the same total in bytes
MemoryProbes(meminfo) ==
    <<Answers({UnameOut}), Answers({HostnameOut}), Answers({ModelOut}),
      Answers({CompatibleOut}), Answers({CpuArmOut}), Answers({meminfo}),
      Answers({UptimeOut}), Answers({OsReleaseOut})>>

MemoryAndroidProbes(meminfo, free) ==
    <<Answers({UnameOut}), Answers({HostnameOut}), NotAsked, NotAsked,
      Answers({CpuArmOut}), Answers({meminfo}), Answers({UptimeOut}),
      NotAsked>>

AndroidDevices == {<<MemSmallOut, FreeSmallOut>>, <<MemOddOut, FreeOut>>}

MemoryBatchEnvs ==
    UNION {ProbeEnv(MemoryProbes(m), NoLinuxProbes, NoAndroidProbes) :
           m \in {MemBigOut, MemSmallOut, MemOddOut}}

MemoryLinuxEnvs ==
    UNION {ProbeEnv(MemoryProbes(m), ChipLinuxProbes, NoAndroidProbes) :
           m \in {MemBigOut, MemSmallOut, MemOddOut}}

MemoryAndroidEnvs ==
    UNION {ProbeEnv(MemoryAndroidProbes(d[1], d[2]), NoLinuxProbes,
                    <<Answers({ManufacturerOut}), Answers({ProductModelOut}),
                      Answers({BoardOut}), Answers({d[2]}),
                      Answers({UptimeCmdOut}), Answers({AndroidReleaseOut}),
                      Answers({BuildIdOut})>>) : d \in AndroidDevices}

\* the targets of SpecUname: the `uname -a` line of a PREEMPT kernel and of
\* a plain SMP kernel, the latter with and without the trailing operating
\* system
UnameOuts == {UnameOut, UnameGnuOut, UnameToyOut}

UnameProbes ==
    <<Answers(UnameOuts), Answers({HostnameOut}),
      AnswersOrDown({ModelOut}), AnswersOrDown({CompatibleOut}),
      Answers({CpuArmOut, CpuX86Out}), Answers({MemBigOut, MemSmallOut}),
      Answers({UptimeOut}), AnswersOrDown({OsReleaseOut})>>

UnameBatchEnvs == ProbeEnv(UnameProbes, NoLinuxProbes, NoAndroidProbes)
UnameLinuxEnvs == ProbeEnv(UnameProbes, ChipLinuxProbes, NoAndroidProbes)

\* ========================================================= ssh_session.rs
\* ------------------------------------- callers of one persistent session
\* One SSHSession behind an Arc is handed to the system-info collector (the
\* batch of execute_multiple_commands), to any other caller of
\* execute_command, and to start_log_stream.
CommandCallers == {"batch", "command"}
SessionCallers == CommandCallers \cup {"stream"}

\* where a caller stands once a call has returned
AfterCall(left) == IF left = 0 THEN "done" ELSE "call"

\* let session = self.session.lock().await  (execute_command)
CommandLock(c) ==
    /\ ss_pc[c] = "call"
    /\ ss_left[c] > 0
    /\ CanLock(ss_lock)
    /\ ss_lock' = c
    /\ ss_pc' = [ss_pc EXCEPT ![c] = "locked"]
    /\ UNCHANGED <<telemetryVars, collectVars, endpointVars, ss_chan, ss_left>>

\* a channel_session() whose guard on the session is a temporary: the mutex
\* is released as soon as the channel exists
CommandOpenUnguarded(c) ==
    /\ ss_pc[c] = "locked"
    /\ ss_chan' = ss_chan \cup {c}
    /\ ss_pc' = [ss_pc EXCEPT ![c] = "exec"]
    /\ ss_lock' = "none"
    /\ UNCHANGED <<telemetryVars, collectVars, endpointVars, ss_left>>

\* session.channel_session()?; channel.exec(command)?  On an error the call
\* returns Err and the guard is dropped.
CommandOpen(c) ==
    /\ ss_pc[c] = "locked"
    /\ \E opened \in BOOLEAN :
         IF opened
         THEN /\ ss_chan' = ss_chan \cup {c}
              /\ ss_pc' = [ss_pc EXCEPT ![c] = "exec"]
              /\ UNCHANGED <<ss_lock, ss_left>>
         ELSE /\ ss_lock' = "none"
              /\ ss_left' = [ss_left EXCEPT ![c] = @ - 1]
              /\ ss_pc' = [ss_pc EXCEPT ![c] = AfterCall(ss_left[c] - 1)]
              /\ UNCHANGED ss_chan
    /\ UNCHANGED <<telemetryVars, collectVars, endpointVars>>

\* read_to_string, wait_close, exit_status, and the return of Ok or Err:
\* the channel and the guard are dropped
CommandFinish(c) ==
    /\ ss_pc[c] = "exec"
    /\ ss_chan' = ss_chan \ {c}
    /\ ss_lock' = "none"
    /\ ss_left' = [ss_left EXCEPT ![c] = @ - 1]
    /\ ss_pc' = [ss_pc EXCEPT ![c] = AfterCall(ss_left[c] - 1)]
    /\ UNCHANGED <<telemetryVars, collectVars, endpointVars>>

\* let session = self.session.lock().await  (start_log_stream)
TailLock ==
    /\ ss_pc["stream"] = "call"
    /\ CanLock(ss_lock)
    /\ ss_lock' = "stream"
    /\ ss_pc' = [ss_pc EXCEPT !["stream"] = "locked"]
    /\ UNCHANGED <<telemetryVars, collectVars, endpointVars, ss_chan, ss_left>>

\* a stream that locks the session only to open its channel
TailOpenUnguarded ==
    /\ ss_pc["stream"] = "locked"
    /\ ss_chan' = ss_chan \cup {"stream"}
    /\ ss_pc' = [ss_pc EXCEPT !["stream"] = "tail"]
    /\ ss_lock' = "none"
    /\ UNCHANGED <<telemetryVars, collectVars, endpointVars, ss_left>>

\* session.channel_session()?; channel.exec("journalctl -f ...")?
TailOpen ==
    /\ ss_pc["stream"] = "locked"
    /\ \E opened \in BOOLEAN :
         IF opened
         THEN /\ ss_chan' = ss_chan \cup {"stream"}
              /\ ss_pc' = [ss_pc EXCEPT !["stream"] = "tail"]
              /\ UNCHANGED ss_lock
         ELSE /\ ss_lock' = "none"
              /\ ss_pc' = [ss_pc EXCEPT !["stream"] = "done"]
              /\ UNCHANGED ss_chan
    /\ UNCHANGED <<telemetryVars, collectVars, endpointVars, ss_left>>

\* match channel.read(&mut buffer): data keeps the loop going, Ok(0) and
\* Err break out of it and the call returns
TailRead ==
    /\ ss_pc["stream"] = "tail"
    /\ \E kind \in {"data", "eof", "err"} :
         IF kind = "data"
         THEN /\ ss_left["stream"] > 0
              /\ ss_left' = [ss_left EXCEPT !["stream"] = @ - 1]
              /\ UNCHANGED <<ss_lock, ss_pc, ss_chan>>
         ELSE /\ ss_chan' = ss_chan \ {"stream"}
              /\ ss_lock' = "none"
              /\ ss_pc' = [ss_pc EXCEPT !["stream"] = "done"]
              /\ UNCHANGED ss_left
    /\ UNCHANGED <<telemetryVars, collectVars, endpointVars>>

\* no call on the session
SessionIdle ==
    /\ ss_lock = "none"
    /\ ss_pc = [c \in SessionCallers |-> "done"]
    /\ ss_chan = {}
    /\ ss_left = [c \in SessionCallers |-> 0]

\* ------------------------------------------- log_collector.rs: endpoints
\* a local Command::output(): "ok" with the standard output, "exit" for a
\* status other than success, "spawn" when the program cannot be started
Local(st, out) == [st |-> st, out |-> out]

\* str::split_once('@')
SplitOnceAt(s) ==
    CASE s = "root@192.168.1.4" -> Some(<<"root", "192.168.1.4">>)
      [] s = "root@192.168.1.4:22" -> Some(<<"root", "192.168.1.4:22">>)
      [] OTHER -> None

\* str::strip_prefix
StripPrefix(s, p) ==
    CASE s = "user admin" /\ p = "user " -> Some("admin")
      [] s = "hostname 192.168.1.4" /\ p = "hostname " -> Some("192.168.1.4")
      [] s = "hostname 192.168.1.9" /\ p = "hostname " -> Some("192.168.1.9")
      [] s = "port 22" /\ p = "port " -> Some("22")
      [] s = "port 2222" /\ p = "port " -> Some("2222")
      [] s = "identityfile ~/.ssh/id_sbc" /\ p = "identityfile " ->
             Some("~/.ssh/id_sbc")
      [] OTHER -> None

\* str::split('\t').next()
BeforeTab(s) ==
    CASE s = "R3CN90ABCDE\tdevice" -> "R3CN90ABCDE"
      [] s = "emulator-5554\tdevice" -> "emulator-5554"
      [] OTHER -> s

RECURSIVE LastStripped(_, _, _)
\* the loop over the lines of `ssh -G`: every matching line overwrites the
\* value, so the last one stays
LastStripped(lines, p, found) ==
    IF lines = <<>> THEN found
    ELSE LET rest == StripPrefix(Head(lines), p)
         IN  LastStripped(Tail(lines), p, IF rest # None THEN rest ELSE found)

\* user and host of a target: user@host is split, anything else is an alias
\* looked up with `ssh -G`; without a user line $USER, without $USER "root"
ResolveSshTarget(target, g, user_env) ==
    IF SplitOnceAt(target) # None THEN Ok(SplitOnceAt(target)[1])
    ELSE IF g.st = "spawn" THEN Err("SSH command not available")
    ELSE IF g.st # "ok" THEN Err("Failed to resolve SSH alias: " \o target)
    ELSE LET lines == Lines(g.out)
             resolved_host == LastStripped(lines, "hostname ", None)
             resolved_user == LastStripped(lines, "user ", None)
             host == IF resolved_host # None THEN resolved_host[1] ELSE target
             user == IF resolved_user # None THEN resolved_user[1]
                     ELSE IF user_env # None THEN user_env[1] ELSE "root"
         IN  Ok(<<user, host>>)

RECURSIVE FirstDevice(_)
\* the first line of `adb devices` that contains "\tdevice" and has a
\* serial before the tab
FirstDevice(lines) ==
    IF lines = <<>> THEN None
    ELSE IF Contains(Head(lines), "\tdevice") /\ BeforeTab(Head(lines)) # ""
         THEN Some(BeforeTab(Head(lines)))
         ELSE FirstDevice(Tail(lines))

\* the serial execute_adb_command runs the command on: the target itself,
\* or for "auto" the first device `adb devices` lists now
ResolveAdbTarget(target, devices) ==
    IF target # "auto" THEN Ok(target)
    ELSE LET found == IF devices.st = "spawn" THEN None
                      ELSE FirstDevice(Lines(devices.out))
         IN  IF found # None THEN Ok(found[1])
             ELSE Err("No ADB devices found")

\* execute_ssh_command: the target is resolved, then `ssh user@host command`
ExecuteSshCommand ==
    /\ r_conn = "ssh"
    /\ r_n < MaxCommands
    /\ LET r == ResolveSshTarget(r_target, r_env.ssh_g, r_env.user)
       IN  /\ r_used' = Append(r_used, IF r.ok THEN r.val[1] \o "@" \o r.val[2]
                                      ELSE "Err: " \o r.val)
           /\ r_lookups' = IF SplitOnceAt(r_target) # None THEN r_lookups
                           ELSE r_lookups + 1
    /\ r_n' = r_n + 1
    /\ UNCHANGED <<telemetryVars, collectVars, sessionVars, r_conn, r_target,
                   r_env, sshVars, adbVars, uptimeVars>>

\* execute_adb_command: for "auto" `adb devices` is run, then
\* `adb -s serial shell command`
ExecuteAdbCommand ==
    /\ r_conn = "adb"
    /\ r_n < MaxCommands
    /\ LET r == ResolveAdbTarget(r_target, r_env.devices)
       IN  /\ r_used' = Append(r_used, IF r.ok THEN r.val ELSE "Err: " \o r.val)
           /\ r_lookups' = IF r_target = "auto" THEN r_lookups + 1
                           ELSE r_lookups
    /\ r_n' = r_n + 1
    /\ UNCHANGED <<telemetryVars, collectVars, sessionVars, r_conn, r_target,
                   r_env, sshVars, adbVars, uptimeVars>>

\* between two commands the alias is pointed at another host in the SSH
\* configuration
Reconfigure ==
    /\ r_conn = "ssh"
    /\ r_env.ssh_g = Local("ok", SshGAlias)
    /\ r_env' = [r_env EXCEPT !.ssh_g = Local("ok", SshGMoved)]
    /\ UNCHANGED <<telemetryVars, collectVars, sessionVars, r_conn, r_target,
                   r_n, r_lookups, r_used, sshVars, adbVars, uptimeVars>>

\* between two commands another device is attached
Replug ==
    /\ r_conn = "adb"
    /\ r_env.devices = Local("ok", DevicesOne)
    /\ r_env' = [r_env EXCEPT !.devices = Local("ok", DevicesTwo)]
    /\ UNCHANGED <<telemetryVars, collectVars, sessionVars, r_conn, r_target,
                   r_n, r_lookups, r_used, sshVars, adbVars, uptimeVars>>

\* ==================================================== main.rs: `sbctool adb`
\* str::parse::<SocketAddr>: ip:port, an IPv6 address in brackets; None is Err
ParseSocketAddr(s) ==
    CASE s = "192.168.1.15:5555" -> Some("192.168.1.15:5555")
      [] s = "[::1]:5555" -> Some("[::1]:5555")
      [] OTHER -> None

\* str::parse::<Ipv4Addr>().is_ok()
IsIpv4Addr(s) == s \in {"192.168.1.15"}

\* str::parse::<Ipv6Addr>().is_ok()
IsIpv6Addr(s) == s \in {"::1", "::1:5555"}

\* what the Adb command has done: the transports it used, in order, and
\* what it came to ("none" before it returns, "ok", or the error)
Route(via, result) == [via |-> via, result |-> result]

\* -s ip:port: ADBTcpDevice on that address
AdbDirect ==
    /\ a_pc = "start"
    /\ a_serial # None
    /\ ParseSocketAddr(a_serial[1]) # None
    /\ LET addr == ParseSocketAddr(a_serial[1])[1]
       IN  a_route' = Route(<<"tcp " \o addr>>,
                            IF a_env.tcp = "ok" THEN "ok" ELSE "connect failed")
    /\ a_pc' = "returned"
    /\ UNCHANGED <<telemetryVars, collectVars, sessionVars, resolveVars,
                   sshVars, a_serial, a_env, uptimeVars>>

\* -s ip: format!("{}:5555", s) parsed as a SocketAddr, then ADBTcpDevice
AdbDefaultPort ==
    /\ a_pc = "start"
    /\ a_serial # None
    /\ ParseSocketAddr(a_serial[1]) = None
    /\ IsIpv4Addr(a_serial[1]) \/ IsIpv6Addr(a_serial[1])
    /\ LET addr == ParseSocketAddr(a_serial[1] \o ":5555")
       IN  a_route' =
             IF addr = None THEN Route(<<>>, "invalid ip: " \o a_serial[1])
             ELSE Route(<<"tcp " \o addr[1]>>,
                        IF a_env.tcp = "ok" THEN "ok" ELSE "connect failed")
    /\ a_pc' = "returned"
    /\ UNCHANGED <<telemetryVars, collectVars, sessionVars, resolveVars,
                   sshVars, a_serial, a_env, uptimeVars>>

\* -s serial: ADBServerDevice through the server on 127.0.0.1:5037
AdbServerSerial ==
    /\ a_pc = "start"
    /\ a_serial # None
    /\ ParseSocketAddr(a_serial[1]) = None
    /\ ~(IsIpv4Addr(a_serial[1]) \/ IsIpv6Addr(a_serial[1]))
    /\ a_route' = Route(<<"server " \o a_serial[1]>>,
                        IF a_env.server = "err" THEN "server failed" ELSE "ok")
    /\ a_pc' = "returned"
    /\ UNCHANGED <<telemetryVars, collectVars, sessionVars, resolveVars,
                   sshVars, a_serial, a_env, uptimeVars>>

\* an open that takes the retry path on every failure
AdbUsbOpenRetriesAny ==
    /\ a_pc = "start"
    /\ a_serial = None
    /\ a_env.usb = "found"
    /\ \/ /\ a_env.usb_open = "ok"
          /\ a_route' = Route(<<"usb">>, "ok")
          /\ a_pc' = "returned"
       \/ /\ a_env.usb_open # "ok"
          /\ a_route' = Route(<<"kill-server">>, "none")
          /\ a_pc' = "retry"
    /\ UNCHANGED <<telemetryVars, collectVars, sessionVars, resolveVars,
                   sshVars, a_serial, a_env, uptimeVars>>

\* no -s, search_adb_devices found a device: ADBUSBDevice::new; when the
\* device is busy `adb kill-server` and a pause come before a second try
AdbUsbOpen ==
    /\ a_pc = "start"
    /\ a_serial = None
    /\ a_env.usb = "found"
    /\ \/ /\ a_env.usb_open = "ok"
          /\ a_route' = Route(<<"usb">>, "ok")
          /\ a_pc' = "returned"
       \/ /\ a_env.usb_open = "busy"
          /\ a_route' = Route(<<"kill-server">>, "none")
          /\ a_pc' = "retry"
       \/ /\ a_env.usb_open \notin {"ok", "busy"}
          /\ a_route' = Route(<<>>, a_env.usb_open)
          /\ a_pc' = "returned"
    /\ UNCHANGED <<telemetryVars, collectVars, sessionVars, resolveVars,
                   sshVars, a_serial, a_env, uptimeVars>>

\* the second ADBUSBDevice::new(vid, pid)?
AdbUsbRetry ==
    /\ a_pc = "retry"
    /\ a_route' = IF a_env.usb_retry = "ok"
                  THEN Route(Append(a_route.via, "usb"), "ok")
                  ELSE Route(a_route.via, "Resource busy")
    /\ a_pc' = "returned"
    /\ UNCHANGED <<telemetryVars, collectVars, sessionVars, resolveVars,
                   sshVars, a_serial, a_env, uptimeVars>>

\* no -s, no USB device found (or the search failed): devices_long on the
\* server, then uname on every device listed
AdbServerList ==
    /\ a_pc = "start"
    /\ a_serial = None
    /\ a_env.usb # "found"
    /\ a_route' =
         IF a_env.server = "err" THEN Route(<<"server list">>, "server failed")
         ELSE Route(<<"server list">> \o
                    [i \in 1..Len(a_env.server) |-> "server " \o a_env.server[i]],
                    "ok")
    /\ a_pc' = "returned"
    /\ UNCHANGED <<telemetryVars, collectVars, sessionVars, resolveVars,
                   sshVars, a_serial, a_env, uptimeVars>>

\* ==================================== main.rs, ssh_session.rs: connecting
\* str::parse::<u16>().ok()
ParseU16(s) ==
    CASE s = "22" -> Some(22)
      [] s = "2222" -> Some(2222)
      [] OTHER -> None

\* whether TcpStream::connect finds a port in the host text
HasPort(host) == host \in {"192.168.1.4:22"}

RECURSIVE FirstStripped(_, _)
\* the loop over the lines of `ssh -G` in main: a value is set only while
\* it is still None, so the first matching line stays
FirstStripped(lines, p) ==
    IF lines = <<>> THEN None
    ELSE LET rest == StripPrefix(Head(lines), p)
         IN  IF rest # None THEN Some(Trim(rest[1]))
             ELSE FirstStripped(Tail(lines), p)

\* Option::or
OrElse(a, b) == IF a # None THEN a ELSE b

\* a resolved endpoint
EndpointOf(user, host, port, identity) ==
    [user |-> user, host |-> host, port |-> port, identity |-> identity]

\* main, Commands::Ssh: user, host, port and identity file of the target.
\* in.cfg is what SSHConfig::query gives for the text of /etc/ssh/ssh_config
\* followed by ~/.ssh/config.
ResolveMain(in) ==
    LET split == SplitOnceAt(in.target)
        user_from_target == IF split # None THEN Some(split[1][1]) ELSE None
        host_from_target == IF split # None THEN split[1][2] ELSE in.target
        asked == ~in.disable /\ in.avail /\ in.ssh_g.st = "ok"
        lines == IF asked THEN Lines(in.ssh_g.out) ELSE <<>>
        user_from_ssh_g == FirstStripped(lines, "user ")
        host_from_ssh_g == FirstStripped(lines, "hostname ")
        port_text == FirstStripped(lines, "port ")
        port_from_ssh_g == IF port_text = None THEN None
                           ELSE ParseU16(port_text[1])
        identity_from_ssh_g == FirstStripped(lines, "identityfile ")
        user == OrElse(user_from_target, OrElse(user_from_ssh_g,
                  OrElse(in.cfg.user, OrElse(in.user, in.logname))))
        host == OrElse(host_from_ssh_g, OrElse(in.cfg.host,
                                               Some(host_from_target)))
        port == OrElse(port_from_ssh_g, OrElse(in.cfg.port, Some(22)))
        identity == OrElse(identity_from_ssh_g, in.cfg.identity)
    IN  IF user = None THEN Err("User not specified in target or SSH config")
        ELSE IF /\ user_from_target = None
                /\ host_from_ssh_g = None
                /\ in.cfg.host = None
                /\ ~in.avail
             THEN Err("SSH alias cannot be resolved")
             ELSE Ok(EndpointOf(user[1], host[1], port[1], identity))

\* SSHSession::parse_target: the same steps as execute_ssh_command
ParseTarget(in) ==
    LET r == ResolveSshTarget(in.target, in.ssh_g, in.user)
    IN  IF r.ok THEN Ok(EndpointOf(r.val[1], r.val[2], None, None)) ELSE r

\* main: the endpoint is resolved before anything is connected
MainResolve ==
    /\ s_path = "main"
    /\ s_pc = "start"
    /\ s_res' = ResolveMain(s_in)
    /\ s_pc' = IF ResolveMain(s_in).ok THEN "connect" ELSE "unresolved"
    /\ UNCHANGED <<telemetryVars, collectVars, sessionVars, resolveVars,
                   s_path, s_in, s_tried, adbVars, uptimeVars>>

\* main: TcpStream::connect(format!("{}:{}", host, port)) and the handshake
MainConnect ==
    /\ s_path = "main"
    /\ s_pc = "connect"
    /\ s_pc' = IF s_in.tcp /\ ~HasPort(s_res.val.host) THEN "auth"
               ELSE "unreachable"
    /\ UNCHANGED <<telemetryVars, collectVars, sessionVars, resolveVars,
                   s_path, s_in, s_res, s_tried, adbVars, uptimeVars>>

\* main: the identity file of `ssh -G` or of the configuration, if any
MainAuthIdentity ==
    /\ s_path = "main"
    /\ s_pc = "auth"
    /\ IF s_res.val.identity # None
       THEN /\ s_tried' = Append(s_tried, "identity")
            /\ s_pc' = IF s_in.identity_ok THEN "exec" ELSE "auth_default"
       ELSE /\ s_tried' = s_tried
            /\ s_pc' = "auth_default"
    /\ UNCHANGED <<telemetryVars, collectVars, sessionVars, resolveVars,
                   s_path, s_in, s_res, adbVars, uptimeVars>>

\* main: ~/.ssh/id_rsa, if the file exists
MainAuthDefault ==
    /\ s_path = "main"
    /\ s_pc = "auth_default"
    /\ IF s_in.id_rsa # "absent"
       THEN /\ s_tried' = Append(s_tried, "id_rsa")
            /\ s_pc' = IF s_in.id_rsa = "accepted" THEN "exec"
                       ELSE "auth_password"
       ELSE /\ s_tried' = s_tried
            /\ s_pc' = "auth_password"
    /\ UNCHANGED <<telemetryVars, collectVars, sessionVars, resolveVars,
                   s_path, s_in, s_res, adbVars, uptimeVars>>

\* main: the password prompt; userauth_password(...)? ends the command
\* when the password is refused
MainAuthPassword ==
    /\ s_path = "main"
    /\ s_pc = "auth_password"
    /\ s_tried' = Append(s_tried, "password")
    /\ s_pc' = IF s_in.password_ok THEN "exec" ELSE "auth_failed"
    /\ UNCHANGED <<telemetryVars, collectVars, sessionVars, resolveVars,
                   s_path, s_in, s_res, adbVars, uptimeVars>>

\* main: uname -a on a channel of the authenticated session
MainExec ==
    /\ s_path = "main"
    /\ s_pc = "exec"
    /\ s_pc' = "done"
    /\ UNCHANGED <<telemetryVars, collectVars, sessionVars, resolveVars,
                   s_path, s_in, s_res, s_tried, adbVars, uptimeVars>>

\* SSHSession::new: parse_target(target).await?
SessionParseTarget ==
    /\ s_path = "session"
    /\ s_pc = "start"
    /\ s_res' = ParseTarget(s_in)
    /\ s_pc' = IF ParseTarget(s_in).ok THEN "connect" ELSE "unresolved"
    /\ UNCHANGED <<telemetryVars, collectVars, sessionVars, resolveVars,
                   s_path, s_in, s_tried, adbVars, uptimeVars>>

\* SSHSession::new: TcpStream::connect(&host)? and the handshake; the host
\* text is connected to as it is
SessionConnect ==
    /\ s_path = "session"
    /\ s_pc = "connect"
    /\ s_pc' = IF s_in.tcp /\ HasPort(s_res.val.host) THEN "auth"
               ELSE "unreachable"
    /\ UNCHANGED <<telemetryVars, collectVars, sessionVars, resolveVars,
                   s_path, s_in, s_res, s_tried, adbVars, uptimeVars>>

\* SSHSession::new: userauth_agent, and Err("SSH authentication failed")
\* when the agent does not authenticate
SessionAuth ==
    /\ s_path = "session"
    /\ s_pc = "auth"
    /\ s_tried' = Append(s_tried, "agent")
    /\ s_pc' = IF s_in.agent_ok THEN "done" ELSE "auth_failed"
    /\ UNCHANGED <<telemetryVars, collectVars, sessionVars, resolveVars,
                   s_path, s_in, s_res, adbVars, uptimeVars>>

\* ------------------------------------------- the parsers of remote log lines
\* str::to_uppercase
ToUppercase(s) ==
    CASE s = "Start" -> "START"
      [] OTHER -> s

\* line[..p] and line[p + 1..] for p = line.find(' '), then
\* rest[c + 1..].trim() for c = rest.find(':'): the message of
\* LogCollector::parse_journald_log_line, None when the line has no blank or
\* the rest no colon
ShortIsoMessage(line) ==
    CASE line = JournalStartLine -> Some("Started Session 1 of User stulluk.")
      [] line = JournalErrorLine ->
             Some("mmc0: error -110 whilst initialising SD card")
      [] line = JournalWarnLine -> Some("Warning: under-voltage detected")
      [] line = JournalCronLine -> Some("(root) CMD (run-parts /etc/cron.hourly)")
      [] line = JournalDebugLine -> Some("debug1: rekeying")
      [] OTHER -> None

\* str::splitn(3, ' ')
Splitn3(line) ==
    CASE line = JournalStartLine ->
             <<"2025-09-05T18:49:25+0000", "sbc1",
               "systemd[1]: Started Session 1 of User stulluk.">>
      [] line = JournalErrorLine ->
             <<"2025-09-05T18:49:26+0000", "sbc1",
               "kernel: mmc0: error -110 whilst initialising SD card">>
      [] line = JournalWarnLine ->
             <<"2025-09-05T18:49:27+0000", "sbc1",
               "kernel: Warning: under-voltage detected">>
      [] line = JournalCronLine ->
             <<"2025-09-05T18:49:28+0000", "sbc1",
               "CRON[77]: (root) CMD (run-parts /etc/cron.hourly)">>
      [] line = JournalDebugLine ->
             <<"2025-09-05T18:49:29+0000", "sbc1", "sshd[812]: debug1: rekeying">>
      [] line = JournalEmptyLine -> <<"--", "No", "entries --">>
      [] OTHER -> <<line>>

\* parts.join(" ")
RECURSIVE Join(_)
Join(parts) ==
    IF parts = <<>> THEN ""
    ELSE IF Len(parts) = 1 THEN parts[1]
    ELSE parts[1] \o " " \o Join(Tail(parts))

\* the keywords of the level tests that message.to_lowercase() contains
LevelKeywords(message) ==
    CASE message \in {"Started Session 1 of User stulluk.",
                      "systemd[1]: Started Session 1 of User stulluk."} ->
             {"start", "started"}
      [] message \in {"mmc0: error -110 whilst initialising SD card",
                      "kernel: mmc0: error -110 whilst initialising SD card"} ->
             {"error"}
      [] message \in {"Warning: under-voltage detected",
                      "kernel: Warning: under-voltage detected"} ->
             {"warn", "warning"}
      [] message \in {"debug1: rekeying", "sshd[812]: debug1: rekeying"} ->
             {"debug"}
      [] message = "<info> device eth0 connected" -> {"info"}
      [] OTHER -> {}

\* LogCollector::parse_android_log_line
ParseAndroidLogLine(line, cyc, idx) ==
    LET parts == SplitWhitespace(line)
    IN  IF Len(parts) < 6 THEN None
        ELSE Some(Entry("android", ToUppercase(parts[5]), "line", cyc, idx))

\* the level chain of the two polling parsers
PollLevel(message) ==
    IF "error" \in LevelKeywords(message) THEN "ERROR"
    ELSE IF "warn" \in LevelKeywords(message) THEN "WARN"
    ELSE IF "info" \in LevelKeywords(message) THEN "INFO"
    ELSE "DEBUG"

\* LogCollector::parse_journald_log_line
ParseJournaldLogLine(line, cyc, idx) ==
    LET message == ShortIsoMessage(line)
    IN  IF message = None THEN None
        ELSE Some(Entry("journald", PollLevel(message[1]), "line", cyc, idx))

\* LogCollector::parse_syslog_line
ParseSyslogLine(line, cyc, idx) ==
    LET parts == SplitWhitespace(line)
    IN  IF Len(parts) < 6 THEN None
        ELSE Some(Entry("syslog", PollLevel(Join(SubSeq(parts, 6, Len(parts)))),
                        "line", cyc, idx))

\* the level chain of SSHSession::parse_journald_log_line
StreamLevel(message) ==
    LET k == LevelKeywords(message)
    IN  IF "error" \in k \/ "fail" \in k THEN "ERROR"
        ELSE IF "warn" \in k \/ "warning" \in k THEN "WARN"
        ELSE IF "info" \in k \/ "start" \in k \/ "started" \in k THEN "INFO"
        ELSE IF "debug" \in k THEN "DEBUG"
        ELSE "UNKNOWN"

\* SSHSession::parse_journald_log_line
SessionParseJournaldLogLine(line, cyc, idx) ==
    LET parts == Splitn3(line)
    IN  IF Len(parts) < 3 THEN None
        ELSE Some(Entry("stream", StreamLevel(parts[3]), "line", cyc, idx))

\* the parser each tier applies to the lines of its output
ParseLogLine(tier, line, cyc, idx) ==
    CASE tier = "android" -> ParseAndroidLogLine(line, cyc, idx)
      [] tier = "journald" -> ParseJournaldLogLine(line, cyc, idx)
      [] tier = "syslog" -> ParseSyslogLine(line, cyc, idx)
      [] OTHER -> SessionParseJournaldLogLine(line, cyc, idx)

\* for line in output.lines() { if let Some(e) = parse(line) { logs.push(e) } }
RECURSIVE ParseLogLines(_, _, _, _)
ParseLogLines(tier, cyc, out, i) ==
    IF i > Len(out) THEN <<>>
    ELSE ParseLogLine(tier, out[i], cyc, i) \o ParseLogLines(tier, cyc, out, i + 1)

\* what the tier's get_*_logs (or one stream read) gives on the lines out
TierBatch(tier, cyc, out) ==
    IF tier = "android"
    THEN Truncate(Reverse(ParseLogLines(tier, cyc, out, 1)), AndroidKeep)
    ELSE ParseLogLines(tier, cyc, out, 1)

\* the lines a target's log command can print
TierLines(tier) ==
    CASE tier = "android" ->
             {"", LogcatFatalLine, LogcatStartLine, LogcatThreadLine,
              LogcatShortLine, LogcatBeginLine}
      [] tier = "syslog" ->
             {"", SyslogSshdLine, SyslogInfoLine, SyslogErrorLine,
              SyslogWarnLine, SyslogOopsLine}
      [] OTHER ->
             {"", JournalStartLine, JournalErrorLine, JournalWarnLine,
              JournalCronLine, JournalDebugLine, JournalEmptyLine}

\* one cycle of the tier's loop (one read of the stream) whose command
\* prints the lines out: the parsed entries are pushed
LevelCycleOk ==
    /\ lc_pc = "query"
    /\ lc_cyc < MaxLevelCycles
    /\ \E out \in SeqsUpTo(TierLines(lc_tier), MaxLevelLines) :
         /\ logs' = logs \o TierBatch(lc_tier, lc_cyc + 1, out)
         /\ lc_pushed' = TierBatch(lc_tier, lc_cyc + 1, out)
    /\ lc_cyc' = lc_cyc + 1
    /\ lc_res' = "ok"
    /\ UNCHANGED <<logs_lock, system_info, sys_lock, dashVars, lc_conf, lc_tier,
                   lc_pc, lc_path, lc_batch, lc_fail, lc_yield, siVars,
                   appended>>

\* one cycle of a polling tier whose command fails: the synthetic entry
LevelCycleErr ==
    /\ lc_pc = "query"
    /\ lc_cyc < MaxLevelCycles
    /\ lc_tier # "stream"
    /\ logs' = Append(logs, ErrorEntry(lc_tier, lc_cyc + 1))
    /\ lc_pushed' = <<ErrorEntry(lc_tier, lc_cyc + 1)>>
    /\ lc_cyc' = lc_cyc + 1
    /\ lc_res' = "err"
    /\ UNCHANGED <<logs_lock, system_info, sys_lock, dashVars, lc_conf, lc_tier,
                   lc_pc, lc_path, lc_batch, lc_fail, lc_yield, siVars,
                   appended>>

\* the dashboard's own entries: 'r' and 'q'
LevelKey ==
    /\ d_keys < MaxKeys
    /\ d_keys' = d_keys + 1
    /\ \E e \in {RefreshEntry(d_keys + 1), ExitEntry(d_keys + 1)} :
         /\ logs' = AddLog(logs, e)
         /\ appended' = Append(appended, e)
    /\ UNCHANGED <<logs_lock, system_info, sys_lock, should_quit, d_pc, d_view,
                   lcVars, siVars>>

\* ------------------------------------------- parse_uptime_from_proc alone
UptimeParse ==
    /\ u_out = None
    /\ u_out' = Some(ParseUptimeFromProc(u_in))
    /\ UNCHANGED <<telemetryVars, collectVars, sessionVars, resolveVars,
                   sshVars, adbVars, u_in>>

\* no subprocess collector
ResolveIdle ==
    /\ r_conn = "ssh" /\ r_target = "" /\ r_env = <<>>
    /\ r_n = 0 /\ r_lookups = 0 /\ r_used = <<>>

\* no connection being opened
SshIdle ==
    /\ s_path = "main" /\ s_in = <<>> /\ s_pc = "done"
    /\ s_res = Err("") /\ s_tried = <<>>

\* no Adb command
AdbIdle ==
    /\ a_serial = None
    /\ a_env = <<>>
    /\ a_pc = "returned"
    /\ a_route = Route(<<>>, "none")

\* no uptime to parse
UptimeIdle == u_in = "" /\ u_out = Some("Unknown")

EndpointIdle == ResolveIdle /\ SshIdle /\ AdbIdle /\ UptimeIdle

\* the system-info collector is constructed and not called
CollectIdle ==
    /\ c_conn = "ssh"
    /\ c_session = FALSE
    /\ c_env = SilentEnv
    /\ c_pc = "ready"
    /\ c_out = NotCalled

\* ------------------------------------------------------------ specification
\* TuiApp::new: no system info, no logs, should_quit false; the log collector
\* is constructed for an Android target, a Linux target, or as the streaming
\* tail of a persistent session
InitTelemetry ==
    /\ logs = <<>>
    /\ logs_lock = "none"
    /\ system_info = <<>>
    /\ sys_lock = "none"
    /\ should_quit = FALSE
    /\ d_pc = "draw"
    /\ d_keys = 0
    /\ d_view = <<>>
    /\ lc_tier = "none"
    /\ lc_pc = "start"
    /\ lc_cyc = 0
    /\ lc_path = 1
    /\ lc_batch = <<>>
    /\ lc_res = "none"
    /\ lc_fail = FALSE
    /\ lc_yield = FALSE
    /\ lc_pushed = <<>>
    /\ si_pc = "idle"
    /\ si_cyc = 0
    /\ appended = <<>>

Init ==
    /\ InitTelemetry
    /\ lc_conf \in {"android", "linux", "stream"}
    /\ CollectIdle
    /\ SessionIdle
    /\ EndpointIdle

\* the dashboard loop and the log collector
Next == Dashboard \/ Polling \/ Streaming

Spec == Init /\ [][Next]_vars

\* the dashboard loop and the system-info writer; the log collector is not
\* started
NextSys == Dashboard \/ SysInfoWriter

SpecSys == Init /\ [][NextSys]_vars

\* ----------------------------------------------------------------- SpecAddLog
\* TuiApp::add_log called again and again on a buffer that starts empty; the
\* k-th call hands over entry number k
AddLogCall ==
    /\ Len(appended) < LogCapacity + ExtraAppends
    /\ CanLock(logs_lock)
    /\ LET entry == Entry("tui", "INFO", "refresh", 0, Len(appended) + 1)
       IN  /\ appended' = Append(appended, entry)
           /\ logs' = AddLog(logs, entry)
    /\ UNCHANGED <<logs_lock, system_info, sys_lock, dashVars, lcVars, siVars>>

NextAddLog == AddLogCall

SpecAddLog == Init /\ [][NextAddLog]_vars

\* ------------------------------------------------------------------- SpecFill
\* a journald collector on a busy target: every query succeeds and returns a
\* full window of QueryWindow lines that all parse
FullWindow == [ok |-> TRUE, out |-> [i \in 1..QueryWindow |-> "line"]]

FillQuery == JournaldQuery({FullWindow})

FillWake == Wake(FillCycles)

NextFill ==
    \/ StartLinux \/ FillQuery
    \/ CollectorLock \/ CollectorPush \/ CollectorUnlock \/ FillWake

SpecFill == Init /\ [][NextFill]_vars

\* ---------------------------------------------------------------- SpecCollect
\* one call of collect_system_info on a collector built by new ("ssh" or
\* "adb", no session) or by new_with_ssh_session ("ssh" with a session),
\* against every target of the strategy
InitCollect ==
    /\ InitTelemetry
    /\ lc_conf = "linux"
    /\ \/ c_conn = "ssh" /\ c_session = TRUE /\ c_env \in BatchEnvs
       \/ c_conn = "ssh" /\ c_session = FALSE /\ c_env \in LinuxEnvs
       \/ c_conn = "adb" /\ c_session = FALSE /\ c_env \in AndroidEnvs
    /\ c_pc = "ready"
    /\ c_out = NotCalled
    /\ SessionIdle
    /\ EndpointIdle

NextCollect == CollectBatch \/ CollectSequential

SpecCollect == InitCollect /\ [][NextCollect]_vars

\* ---------------------------------------------------------------- SpecSession
\* the callers of one persistent session, each with MaxSessionCommands
\* commands to run (the stream: data reads to make), under any interleaving
InitSession ==
    /\ InitTelemetry
    /\ lc_conf = "linux"
    /\ CollectIdle
    /\ ss_lock = "none"
    /\ ss_pc = [c \in SessionCallers |-> "call"]
    /\ ss_chan = {}
    /\ ss_left = [c \in SessionCallers |-> MaxSessionCommands]
    /\ EndpointIdle

NextSession ==
    \/ \E c \in CommandCallers : CommandLock(c)
    \/ \E c \in CommandCallers : CommandOpen(c)
    \/ \E c \in CommandCallers : CommandFinish(c)
    \/ TailLock \/ TailOpen \/ TailRead

SpecSession == InitSession /\ [][NextSession]_vars

\* ---------------------------------------------------------------- SpecChip
\* one call of collect_system_info over SSH, batched or sequential, against
\* every combination of device-tree model, compatible string and cpuinfo
InitChip ==
    /\ InitTelemetry
    /\ lc_conf = "linux"
    /\ c_conn = "ssh"
    /\ \/ c_session = TRUE /\ c_env \in ChipBatchEnvs
       \/ c_session = FALSE /\ c_env \in ChipLinuxEnvs
    /\ c_pc = "ready"
    /\ c_out = NotCalled
    /\ SessionIdle
    /\ EndpointIdle

SpecChip == InitChip /\ [][NextCollect]_vars

\* ---------------------------------------------------------------- SpecMemory
\* one call of collect_system_info, by each strategy, on devices of
\* different memory sizes
InitMemory ==
    /\ InitTelemetry
    /\ lc_conf = "linux"
    /\ \/ c_conn = "ssh" /\ c_session = TRUE /\ c_env \in MemoryBatchEnvs
       \/ c_conn = "ssh" /\ c_session = FALSE /\ c_env \in MemoryLinuxEnvs
       \/ c_conn = "adb" /\ c_session = FALSE /\ c_env \in MemoryAndroidEnvs
    /\ c_pc = "ready"
    /\ c_out = NotCalled
    /\ SessionIdle
    /\ EndpointIdle

SpecMemory == InitMemory /\ [][NextCollect]_vars

\* ---------------------------------------------------------------- SpecUname
\* one call of collect_system_info over SSH, batched or sequential, on
\* targets whose `uname -a` line has 12, 13 or 14 tokens
InitUname ==
    /\ InitTelemetry
    /\ lc_conf = "linux"
    /\ c_conn = "ssh"
    /\ \/ c_session = TRUE /\ c_env \in UnameBatchEnvs
       \/ c_session = FALSE /\ c_env \in UnameLinuxEnvs
    /\ c_pc = "ready"
    /\ c_out = NotCalled
    /\ SessionIdle
    /\ EndpointIdle

SpecUname == InitUname /\ [][NextCollect]_vars

\* ---------------------------------------------------------------- SpecLevels
\* a collector in each tier, its command printing lines of the tier's
\* format, next to the dashboard's key handling
LevelTiers == {"android", "journald", "syslog", "stream"}

InitLevels ==
    /\ logs = <<>>
    /\ logs_lock = "none"
    /\ system_info = <<>>
    /\ sys_lock = "none"
    /\ should_quit = FALSE
    /\ d_pc = "draw"
    /\ d_keys = 0
    /\ d_view = <<>>
    /\ lc_tier \in LevelTiers
    /\ lc_conf = (CASE lc_tier = "android" -> "android"
                     [] lc_tier = "stream" -> "stream"
                     [] OTHER -> "linux")
    /\ lc_pc = "query"
    /\ lc_cyc = 0
    /\ lc_path = 1
    /\ lc_batch = <<>>
    /\ lc_res = "none"
    /\ lc_fail = FALSE
    /\ lc_yield = FALSE
    /\ lc_pushed = <<>>
    /\ si_pc = "idle"
    /\ si_cyc = 0
    /\ appended = <<>>
    /\ CollectIdle
    /\ SessionIdle
    /\ EndpointIdle

NextLevels == LevelCycleOk \/ LevelCycleErr \/ LevelKey

SpecLevels == InitLevels /\ [][NextLevels]_vars

\* ---------------------------------------------------------------- SpecTier
\* a LogCollector built by new (Android or Linux) or by
\* new_with_ssh_session, from start_log_collection on
InitTier ==
    /\ InitTelemetry
    /\ lc_conf \in {"android", "linux", "linux_session"}
    /\ CollectIdle
    /\ SessionIdle
    /\ EndpointIdle

SpecTier == InitTier /\ [][Polling]_vars

\* ---------------------------------------------------------------- SpecLocks
\* the three tasks that share the telemetry state: the dashboard loop, the
\* system-info writer and a log collector polling the journal, taken from
\* the first cycle of collect_journald_logs on; the query fails or prints up
\* to LockLines lines that parse
LockResults ==
    {[ok |-> FALSE, out |-> <<>>]}
    \cup {[ok |-> TRUE, out |-> o] : o \in SeqsUpTo({"line"}, LockLines)}

LockQuery == JournaldQuery(LockResults)
LockWake == Wake(LockCycles)

InitLocks ==
    /\ logs = <<>>
    /\ logs_lock = "none"
    /\ system_info = <<>>
    /\ sys_lock = "none"
    /\ should_quit = FALSE
    /\ d_pc = "draw"
    /\ d_keys = 0
    /\ d_view = <<>>
    /\ lc_conf = "linux"
    /\ lc_tier = "journald"
    /\ lc_pc = "query"
    /\ lc_cyc = 1
    /\ lc_path = 1
    /\ lc_batch = <<>>
    /\ lc_res = "none"
    /\ lc_fail = FALSE
    /\ lc_yield = FALSE
    /\ lc_pushed = <<>>
    /\ si_pc = "idle"
    /\ si_cyc = 0
    /\ appended = <<>>
    /\ CollectIdle
    /\ SessionIdle
    /\ EndpointIdle

LogPolling ==
    LockQuery \/ CollectorLock \/ CollectorPush \/ CollectorUnlock \/ LockWake

NextLocks == Dashboard \/ SysInfoWriter \/ LogPolling

SpecLocks == InitLocks /\ [][NextLocks]_vars

\* The same three tasks under fair scheduling, the query failing or
\* printing one line.  Each task is a thread or a tokio task of its own and
\* keeps running: weak fairness of its steps.  A task blocked in Mutex::lock
\* is woken when the mutex is released, and every holder releases after a
\* bounded number of its own steps and then sleeps or polls for input:
\* strong fairness of the acquisitions.
FairResults == {[ok |-> FALSE, out |-> <<>>], [ok |-> TRUE, out |-> <<"line">>]}

FairQuery == JournaldQuery(FairResults)

FairPolling ==
    FairQuery \/ CollectorLock \/ CollectorPush \/ CollectorUnlock \/ LockWake

NextFair == Dashboard \/ SysInfoWriter \/ FairPolling

FairLocks ==
    /\ InitLocks
    /\ [][NextFair]_vars
    /\ WF_vars(Dashboard) /\ WF_vars(SysInfoWriter) /\ WF_vars(FairPolling)
    /\ SF_vars(RenderSysLock) /\ SF_vars(RenderLogsLock) /\ SF_vars(AddLogLock)
    /\ SF_vars(CollectorLock) /\ SF_vars(UpdateLock)

\* ---------------------------------------------------------------- SpecResolve
\* a collector without a persistent session (LogCollector, or a
\* SystemInfoCollector built by new) executing MaxCommands commands on its
\* target while the local configuration may change
InitResolve ==
    /\ InitTelemetry
    /\ lc_conf = "linux"
    /\ CollectIdle
    /\ SessionIdle
    /\ \/ /\ r_conn = "ssh"
          /\ r_target \in {"root@192.168.1.4", "khadas"}
       \/ /\ r_conn = "adb"
          /\ r_target \in {"auto", "R3CN90ABCDE"}
    /\ r_env \in [ssh_g : {Local("ok", SshGAlias), Local("ok", SshGNoUser),
                           Local("exit", ""), Local("spawn", "")},
                  user : {None, Some("alice")},
                  devices : {Local("ok", DevicesOne), Local("ok", DevicesNone),
                             Local("spawn", "")}]
    /\ r_n = 0
    /\ r_lookups = 0
    /\ r_used = <<>>
    /\ SshIdle /\ AdbIdle /\ UptimeIdle

NextResolve == ExecuteSshCommand \/ ExecuteAdbCommand \/ Reconfigure \/ Replug

SpecResolve == InitResolve /\ [][NextResolve]_vars

\* ---------------------------------------------------------------- SpecAdb
\* one run of `sbctool adb`, with or without -s, against every answer of the
\* USB search, the USB open, the server and the TCP connection
AdbSerials ==
    {"192.168.1.15:5555", "[::1]:5555", "192.168.1.15", "::1", "R3CN90ABCDE"}

InitAdb ==
    /\ InitTelemetry
    /\ lc_conf = "linux"
    /\ CollectIdle
    /\ SessionIdle
    /\ ResolveIdle /\ SshIdle /\ UptimeIdle
    /\ a_serial \in {None} \cup {Some(x) : x \in AdbSerials}
    /\ a_env \in [usb : {"found", "none", "err"},
                  usb_open : {"ok", "busy", "Permission denied"},
                  usb_retry : {"ok", "busy"},
                  server : {"err", <<>>, <<"R3CN90ABCDE">>,
                            <<"R3CN90ABCDE", "emulator-5554">>},
                  tcp : {"ok", "refused"}]
    /\ a_pc = "start"
    /\ a_route = Route(<<>>, "none")

NextAdb ==
    \/ AdbDirect \/ AdbDefaultPort \/ AdbServerSerial
    \/ AdbUsbOpen \/ AdbUsbRetry \/ AdbServerList

SpecAdb == InitAdb /\ [][NextAdb]_vars

\* ---------------------------------------------------------------- SpecSsh
\* one SSH connection opened by `sbctool ssh` (main) or by SSHSession::new,
\* for every target, local environment and set of accepted credentials
CfgAnswers ==
    {[user |-> None, host |-> None, port |-> None, identity |-> None],
     [user |-> Some("cfguser"), host |-> None, port |-> None,
      identity |-> None],
     [user |-> Some("cfguser"), host |-> Some("192.168.1.4"),
      port |-> Some(22), identity |-> Some("~/.ssh/id_cfg")]}

ConnectionInputs ==
    [target : {"root@192.168.1.4", "root@192.168.1.4:22", "khadas"},
     avail : BOOLEAN, disable : BOOLEAN,
     ssh_g : {Local("ok", SshGFull), Local("ok", SshGNoUser),
              Local("exit", ""), Local("spawn", "")},
     cfg : CfgAnswers,
     user : {None, Some("alice")}, logname : {None, Some("login")},
     tcp : BOOLEAN, identity_ok : BOOLEAN,
     id_rsa : {"absent", "rejected", "accepted"},
     password_ok : BOOLEAN, agent_ok : BOOLEAN]

\* `ssh -G localhost` succeeds exactly when ssh can be started and knows -G;
\* main is given a host without a port, the session one with a port or an
\* alias
Plausible(path, in) ==
    /\ in.avail => in.ssh_g.st # "spawn"
    /\ ~in.avail => in.ssh_g.st # "ok"
    /\ path = "main" => in.target # "root@192.168.1.4:22"
    /\ path = "session" => in.target # "root@192.168.1.4"

InitSsh ==
    /\ InitTelemetry
    /\ lc_conf = "linux"
    /\ CollectIdle
    /\ SessionIdle
    /\ ResolveIdle /\ AdbIdle /\ UptimeIdle
    /\ s_path \in {"main", "session"}
    /\ s_in \in ConnectionInputs
    /\ Plausible(s_path, s_in)
    /\ s_pc = "start"
    /\ s_res = Err("")
    /\ s_tried = <<>>

NextSsh ==
    \/ MainResolve \/ MainConnect \/ MainAuthIdentity \/ MainAuthDefault
    \/ MainAuthPassword \/ MainExec
    \/ SessionParseTarget \/ SessionConnect \/ SessionAuth

SpecSsh == InitSsh /\ [][NextSsh]_vars

\* ---------------------------------------------------------------- SpecUptime
\* parse_uptime_from_proc on the /proc/uptime line of every uptime of
\* UptimeValues, and on an empty answer
InitUptime ==
    /\ InitTelemetry
    /\ lc_conf = "linux"
    /\ CollectIdle
    /\ SessionIdle
    /\ ResolveIdle /\ SshIdle /\ AdbIdle
    /\ u_in \in {ProcUptimeText(v) : v \in UptimeValues} \cup {""}
    /\ u_out = None

NextUptime == UptimeParse

SpecUptime == InitUptime /\ [][NextUptime]_vars

\* ===================================================================== claims
Synthetic(e) == e.msg = "failure"

\* the last n elements of s
LastN(s, n) == SubSeq(s, Len(s) - n + 1, Len(s))

\* C1 (SpecFill): in every reachable state the shared log buffer holds at
\* most 100 entries, whichever writer appended.  The collectors push into
\* the vector without evicting, so the buffer outgrows the capacity.
C1_BufferWithinCapacity == Len(logs) <= LogCapacity

\* C2 (SpecAddLog): after k add_log calls on a buffer that started empty, the
\* buffer is exactly the last min(k, 100) entries handed over, in call order.
C2_KeepsNewestInOrder ==
    logs = LastN(appended, Min(Len(appended), LogCapacity))

\* C2 witness: more than 100 entries were handed over, the oldest are gone
C2_Witness ==
    /\ Len(appended) > LogCapacity + 1
    /\ Len(logs) = LogCapacity
    /\ logs[1].idx = Len(appended) - LogCapacity + 1

\* C3 (SpecSys): the slot is absent or one complete snapshot, and a render
\* that has read all the fields saw either absence or the fields of one
\* single collection cycle.
C3_AtomicReplace ==
    /\ \/ system_info = <<>>
       \/ \E n \in 1..MaxSnapshots : system_info = <<Snapshot(n)>>
    /\ Len(d_view) = 2 =>
         \/ ~d_view[1].some /\ ~d_view[2].some
         \/ \E n \in 1..MaxSnapshots :
              /\ d_view[1] = [some |-> TRUE, f |-> <<n, n, n>>]
              /\ d_view[2] = [some |-> TRUE, f |-> <<n, n, n, n, n>>]

\* C3 witness: a render read the whole previous snapshot while the writer
\* was about to replace it, and the slot now holds the new one
C3_Witness ==
    /\ Len(d_view) = 2
    /\ d_view[1] = [some |-> TRUE, f |-> <<1, 1, 1>>]
    /\ system_info = <<Snapshot(2)>>

\* C4 as claimed (Spec): a completed polling cycle in which a remote command
\* failed appended exactly one synthetic ERROR entry and nothing else; a
\* cycle without a failed command appended no synthetic entry.
C4_OneErrorPerFailedCycle ==
    lc_pc = "sleep" =>
        IF lc_fail
        THEN lc_pushed = <<ErrorEntry(lc_tier, lc_cyc)>>
        ELSE \A i \in 1..Len(lc_pushed) : ~Synthetic(lc_pushed[i])

\* C4 amended (Spec): for Android and journald as claimed; a legacy-syslog
\* cycle appends exactly one synthetic ERROR entry and nothing else exactly
\* when no candidate returned a line that parses, and otherwise appends
\* parsed entries only, whether or not an earlier candidate's command failed.
C4_OneErrorPerFailedQuery ==
    lc_pc = "sleep" =>
        LET failed == IF lc_tier = "syslog" THEN ~lc_yield ELSE lc_fail
        IN  IF failed
            THEN lc_pushed = <<ErrorEntry(lc_tier, lc_cyc)>>
            ELSE /\ \A i \in 1..Len(lc_pushed) : ~Synthetic(lc_pushed[i])
                 /\ lc_tier = "syslog" => lc_pushed # <<>>

\* C4 witness: a syslog cycle in which a candidate's command failed and a
\* later candidate's lines were appended, an ERROR-level line among them
C4_Witness ==
    /\ lc_pc = "sleep"
    /\ lc_tier = "syslog"
    /\ lc_fail
    /\ lc_pushed # <<>>
    /\ lc_pushed[1].level = "ERROR"
    /\ ~Synthetic(lc_pushed[1])

\* C5 (Spec): a started collector has no terminal state: after a read of the
\* streaming tail, whatever its result, the collector has not returned.
C5_NoTerminalState ==
    (lc_tier = "stream" /\ lc_cyc >= 1) => lc_pc # "returned"

\* C6 (Spec): two parsed lines of one cycle of one collector stand in the
\* buffer in the order the target produced them.
C6_ProductionOrder ==
    \A i, j \in 1..Len(logs) :
        (/\ i < j
         /\ logs[i].msg = "line" /\ logs[j].msg = "line"
         /\ logs[i].src = logs[j].src
         /\ logs[i].cyc = logs[j].cyc) => logs[i].idx < logs[j].idx

\* the probes of a field all failed: the one command of a single-probe
\* field, every command the chip and the Android memory, uptime and OS
\* fields fall back through
Failed(a) == a.st # "ok"
FieldProbesFailed ==
    [hostname |-> Failed(c_env.hostname),
     kernel |-> Failed(c_env.uname),
     architecture |-> Failed(c_env.uname),
     chip |-> IF c_conn = "adb"
              THEN /\ Failed(c_env.manufacturer)
                   /\ Failed(c_env.product_model)
                   /\ Failed(c_env.board)
              ELSE /\ Failed(c_env.model)
                   /\ Failed(c_env.compatible)
                   /\ Failed(c_env.cpuinfo),
     cpu_info |-> Failed(c_env.cpuinfo),
     memory |-> IF c_conn = "adb"
                THEN Failed(c_env.free) /\ Failed(c_env.meminfo)
                ELSE Failed(c_env.meminfo),
     uptime |-> IF c_conn = "adb"
                THEN Failed(c_env.uptime_cmd) /\ Failed(c_env.uptime)
                ELSE Failed(c_env.uptime),
     os_info |-> IF c_conn = "adb"
                 THEN Failed(c_env.release) /\ Failed(c_env.build_id)
                 ELSE /\ Failed(c_env.os_release)
                      /\ c_session \/ Failed(c_env.lsb_release)
                      /\ c_session \/ Failed(c_env.uname_o)]

\* the texts a failure message turns into: the message behind "Error: ",
\* and its tokens 0 and 2 joined as a kernel label
FailureTexts ==
    {"Error: " \o ExitStatusMessage, "Error: " \o ChannelMessage,
     "Error: failed", "Error: failure"}

TextFields ==
    {"hostname", "kernel", "architecture", "cpu_info", "memory", "uptime",
     "os_info"}

\* C7 (SpecCollect): collect_system_info returns a SystemInfo for every
\* combination of success and failure of the probe commands and for every
\* probe output, in the batched and in the sequential strategy: it neither
\* returns an error nor aborts.
C7_NeverFails ==
    c_pc = "done" => c_out.status = "ok"

\* C8 (SpecCollect): in a returned SystemInfo every field whose probe
\* command failed holds "Unknown" (the chip: absent or "Unknown"), and no
\* field carries text derived from a failure message.
C8_FailedFieldIsUnknown ==
    (c_pc = "done" /\ c_out.status = "ok") =>
        /\ \A f \in TextFields :
              /\ FieldProbesFailed[f] => c_out.info[f] = "Unknown"
              /\ c_out.info[f] \notin FailureTexts
        /\ FieldProbesFailed.chip => c_out.info.chip \in {None, Some("Unknown")}
        /\ \A i \in DOMAIN c_out.info.chip :
              c_out.info.chip[i] \notin FailureTexts

\* C9 (Spec): a failed cycle or a failed stream read leaves a synthetic entry
\* in the buffer, and the collector has not returned because of it.
C9_FailureBecomesEntry ==
    (lc_cyc >= 1 /\ lc_res = "err" /\ lc_pc \in {"sleep", "returned"}) =>
        /\ lc_pc # "returned"
        /\ \E i \in 1..Len(lc_pushed) : Synthetic(lc_pushed[i])

\* C10 (Spec): the collector holds the log-buffer mutex only while it pushes:
\* never while it sleeps, awaits a remote command or blocks on a stream read.
C10_NoLockWhileSuspended ==
    logs_lock = "lc" => lc_pc \in {"push", "s_push"}

\* C10 witness: the render waits for the log-buffer mutex while the collector
\* holds it in the middle of a batch
C10_Witness ==
    /\ d_pc = "rl_wait"
    /\ logs_lock = "lc"
    /\ lc_pc = "push"
    /\ lc_pushed # <<>>
    /\ lc_batch # <<>>

\* C11 (SpecSession): at most one caller has a channel open on the session
\* at any time, and that caller holds the session mutex.
C11_OneChannelAtATime ==
    /\ Cardinality(ss_chan) <= 1
    /\ \A c \in ss_chan : ss_lock = c

\* C11 witness: the stream has its channel open while the batch, with
\* commands left to run, waits for the session
C11_Witness ==
    /\ ss_chan = {"stream"}
    /\ ss_pc["batch"] = "call"
    /\ ss_left["batch"] > 0
    /\ ss_left["batch"] < MaxSessionCommands

\* C12 (Spec): once the loop has read a quit key it only waits for the
\* log-buffer mutex, appends the exit entry, sets should_quit and returns:
\* it renders and polls no more; after any other key or no key it goes on
\* to the next render with should_quit false.
C12_QuitEndsLoop ==
    [][/\ d_pc = "al_quit" => d_pc' \in {"al_quit", "al_quit_locked"}
       /\ d_pc = "al_quit_locked" => d_pc' \in {"al_quit_locked", "done"}
       /\ d_pc' = "done" => should_quit'
       /\ d_pc = "done" => d_pc' = "done"
       /\ (d_pc = "poll" /\ d_pc' \notin {"poll", "al_quit"}) =>
             (d_pc' \in {"draw", "al_refresh"} /\ ~should_quit')
       /\ (d_pc = "al_refresh_locked" /\ d_pc' # d_pc) =>
             (d_pc' = "draw" /\ ~should_quit')]_vars

\* C12 witness: the loop went on after an 'r', then read 'q' and returned
C12_Witness ==
    /\ d_pc = "done"
    /\ should_quit
    /\ d_keys = 2
    /\ \E i, j \in 1..Len(logs) :
         i < j /\ logs[i].msg = "refresh" /\ logs[j].msg = "exit"

C14_ResolvedOnce == r_lookups <= 1

\* what a probe gave: its output, nothing when the file is missing
Given(a) == IF a.st = "ok" THEN a.out ELSE ""

\* C15 (SpecChip): when the device-tree probes were answered, the chip label
\* is the model if that is not empty; else the table label of a compatible
\* string that matches the table; else the label of the CPU implementer
\* code (0x41 ARM, 0x42 Broadcom, 0x51 Qualcomm).
C15_ChipPriority ==
    (/\ c_pc = "done"
     /\ c_out.status = "ok"
     /\ c_session => "down" \notin {c_env.model.st, c_env.compatible.st}) =>
        LET m == Given(c_env.model)
            k == Given(c_env.compatible)
            u == c_env.cpuinfo.out
            chip == c_out.info.chip
        IN  CASE m # "" -> chip = Some(m)
              [] k \in {CompatibleOut, CompatibleSocOut} ->
                     chip = Some("Rockchip RK3588")
              [] u \in {CpuArmOut, CpuSunxiOut} -> chip = Some("ARM")
              [] u = CpuBroadcomOut -> chip = Some("Broadcom")
              [] u = CpuQualcommOut -> chip = Some("Qualcomm")
              [] OTHER -> chip = None

\* C15 witness: the batched collection took the table label of the
\* compatible string although the cpuinfo names another implementer
C15_Witness ==
    /\ c_pc = "done"
    /\ c_session
    /\ c_env.model = Answer("exit", "")
    /\ c_env.compatible = Answer("ok", CompatibleSocOut)
    /\ c_env.cpuinfo = Answer("ok", CpuBroadcomOut)
    /\ c_out.info.chip = Some("Rockchip RK3588")

\* C16 (SpecAdb): a serial ip:port goes directly to that address, a bare
\* IPv4 or IPv6 address directly to port 5555 of it, any other serial to the
\* server, and no serial to USB when a device is found, else to the
\* enumeration of the server.
C16_AddressClassification ==
    a_pc = "returned" =>
        LET first == IF a_route.via = <<>> THEN "" ELSE a_route.via[1]
        IN  CASE a_serial = None ->
                   IF a_env.usb = "found" THEN first \in {"usb", "kill-server", ""}
                   ELSE first = "server list"
              [] a_serial = Some("192.168.1.15:5555") ->
                   a_route.via = <<"tcp 192.168.1.15:5555">>
              [] a_serial = Some("[::1]:5555") ->
                   a_route.via = <<"tcp [::1]:5555">>
              [] a_serial = Some("192.168.1.15") ->
                   a_route.via = <<"tcp 192.168.1.15:5555">>
              [] a_serial = Some("::1") -> a_route.via = <<"tcp [::1]:5555">>
              [] OTHER -> a_route.via = <<"server " \o a_serial[1]>>

\* the user the priority chain of C17 gives: the user of user@host, else
\* the user `ssh -G` reports, else the user of the SSH configuration, else
\* $USER, else $LOGNAME, else none
ChainUser ==
    LET reported == /\ s_in.ssh_g.st = "ok"
                    /\ s_path = "main" => (s_in.avail /\ ~s_in.disable)
    IN  CASE s_in.target = "root@192.168.1.4" -> Some("root")
          [] s_in.target = "root@192.168.1.4:22" -> Some("root")
          [] reported /\ s_in.ssh_g.out = SshGFull -> Some("admin")
          [] s_in.cfg.user # None -> s_in.cfg.user
          [] s_in.user # None -> s_in.user
          [] s_in.logname # None -> s_in.logname
          [] OTHER -> None

\* some source of the chain names the host: the target itself, `ssh -G`,
\* or the SSH configuration
ChainHostKnown ==
    \/ s_in.target \in {"root@192.168.1.4", "root@192.168.1.4:22"}
    \/ /\ s_in.ssh_g.st = "ok"
       /\ s_path = "main" => (s_in.avail /\ ~s_in.disable)
    \/ s_in.cfg.host # None

\* C17 (SpecSsh): a resolution that succeeds gives the user of the priority
\* chain; when no source of the chain yields a user the resolution fails;
\* and when the chain yields a user and a host the resolution succeeds.
C17_PriorityChain ==
    s_pc # "start" =>
        /\ ChainUser = None => ~s_res.ok
        /\ s_res.ok => (ChainUser # None /\ s_res.val.user = ChainUser[1])
        /\ (ChainUser # None /\ ChainHostKnown) => s_res.ok

\* the methods the chain of C18 tries: the configured identity file, then
\* ~/.ssh/id_rsa, then the password, each only after the ones before it
\* have failed
ChainAttempts ==
    LET configured == IF s_res.val.identity # None THEN <<"identity">> ELSE <<>>
        default == IF s_in.id_rsa # "absent" THEN <<"id_rsa">> ELSE <<>>
    IN  IF s_res.val.identity # None /\ s_in.identity_ok THEN configured
        ELSE IF s_in.id_rsa = "accepted" THEN configured \o default
             ELSE configured \o default \o <<"password">>

\* C18 (SpecSsh): a connection that came to authenticate has tried the
\* methods of the chain in order up to the first that was accepted, and it
\* has failed exactly when the password was refused as well.
C18_FallbackChain ==
    s_pc \in {"done", "auth_failed"} =>
        /\ s_tried = ChainAttempts
        /\ s_pc = "auth_failed" <=>
             /\ ~(s_res.val.identity # None /\ s_in.identity_ok)
             /\ s_in.id_rsa # "accepted"
             /\ ~s_in.password_ok

\* MemTotal of the device in kB
MemTotalKb ==
    CASE c_env.meminfo.out = MemBigOut -> 2097152
      [] c_env.meminfo.out = MemSmallOut -> 524288
      [] c_env.meminfo.out = MemOddOut -> 1958976

\* C19 (SpecMemory): whichever strategy collected it, the memory string of
\* a device whose /proc/meminfo can be read is "<k div 1048576> GB" for
\* MemTotal k >= 1048576 kB and "<k div 1024> MB" below.
C19_MemoryFormat ==
    (c_pc = "done" /\ c_out.status = "ok" /\ c_env.meminfo.st = "ok") =>
        c_out.info.memory =
            IF MemTotalKb >= 1048576
            THEN ToString(MemTotalKb \div 1048576) \o " GB"
            ELSE ToString(MemTotalKb \div 1024) \o " MB"

\* the whole seconds of the uptime that was parsed
UptimeSeconds == (CHOOSE v \in UptimeValues : u_in = ProcUptimeText(v))[1]

\* C20 (SpecUptime): with d = s div 86400, h = (s mod 86400) div 3600 and
\* m = (s mod 3600) div 60 for an uptime of s seconds, the result is
\* "{d}d {h}h {m}m" when d > 0, "{h}h {m}m" when d = 0 and h > 0, and "{m}m"
\* otherwise; 90061.5 s gives "1d 1h 1m", 125 s "2m", 3661 s "1h 1m".
C20_UptimeFormat ==
    (u_out # None /\ u_in # "") =>
        LET sec == UptimeSeconds
            d == ToString(sec \div 86400) \o "d "
            h == ToString((sec % 86400) \div 3600) \o "h "
            m == ToString((sec % 3600) \div 60) \o "m"
        IN  /\ sec >= 86400 => u_out = Some(d \o h \o m)
            /\ (sec < 86400 /\ sec >= 3600) => u_out = Some(h \o m)
            /\ sec < 3600 => u_out = Some(m)
            /\ u_in = "90061.50 7200.50" => u_out = Some("1d 1h 1m")
            /\ u_in \in {"125.00 7200.50", "125.50 7200.50"} => u_out = Some("2m")
            /\ u_in = "3661.00 7200.50" => u_out = Some("1h 1m")

\* C20 witness: 90061.5 seconds were formatted with their days
C20_Witness ==
    /\ u_in = "90061.50 7200.50"
    /\ u_out = Some("1d 1h 1m")

\* C21: a collector whose `uname -a` answer is a line "Linux host 5.10.0 #1
\* SMP ... aarch64" (its 1st token "Linux", its 3rd "5.10.0", the machine
\* "aarch64" at or near its end) and whose `hostname` answer is "sbc1" yields
\* a SystemInfo with kernel "Linux 5.10.0", architecture "aarch64" and
\* hostname "sbc1".
UnameAnswered ==
    /\ c_env.uname.st = "ok" /\ c_env.uname.out \in UnameOuts
    /\ c_env.hostname.st = "ok" /\ c_env.hostname.out = HostnameOut

C21_UnameEndToEnd ==
    (c_pc = "done" /\ UnameAnswered) =>
        /\ c_out.status = "ok"
        /\ c_out.info.kernel = "Linux 5.10.0"
        /\ c_out.info.architecture = "aarch64"
        /\ c_out.info.hostname = "sbc1"

\* C22: every entry of the shared log buffer, whichever parser or synthetic
\* source it came from, has a level among ERROR, WARN, INFO, DEBUG and
\* UNKNOWN.
Levels == {"ERROR", "WARN", "INFO", "DEBUG", "UNKNOWN"}

C22_LevelsEnumerated ==
    \A i \in 1..Len(logs) : logs[i].level \in Levels

\* C23 (SpecTier): the tier is selected once, at the start of the collector,
\* and never changes afterwards: only the step that leaves the start
\* position sets it, and no step returns to the start position.
C23_TierSelectedOnce ==
    [][/\ lc_tier # "none" => lc_tier' = lc_tier
       /\ lc_tier' # lc_tier => lc_pc = "start"
       /\ lc_pc # "start" => lc_pc' # "start"]_vars

\* C23 witness: a legacy-syslog collector in its second cycle, the first
\* having failed
C23_Witness ==
    /\ lc_tier = "syslog"
    /\ lc_cyc = 2
    /\ lc_pc = "query"
    /\ logs = <<ErrorEntry("syslog", 1)>>

\* C24 (SpecTier): a collector given a persistent SSH session does not poll
\* the journal: where the probe succeeds it streams; a collector without
\* one never streams.
C24_SessionStreams ==
    /\ lc_conf = "linux_session" => lc_tier # "journald"
    /\ lc_conf \in {"android", "linux"} => lc_tier # "stream"

C28_LocksGranted ==
    /\ [](~(sys_lock = "dash" /\ logs_lock = "dash"))
    /\ (d_pc = "draw") ~> (sys_lock = "dash")
    /\ (d_pc \in {"rl_wait", "al_refresh", "al_quit"}) ~> (logs_lock = "dash")
    /\ (lc_pc = "lock") ~> (logs_lock = "lc")
    /\ (si_pc = "idle" /\ si_cyc < MaxSnapshots) ~> (sys_lock = "si")

\* C28 witness: both writers hold or await their lock while the dashboard
\* waits for the log-buffer lock
C28_Witness ==
    /\ d_pc = "rl_wait"
    /\ logs_lock = "lc"
    /\ sys_lock = "si"

\* C26 (SpecAdb): with no serial and a USB device found, the open is retried
\* once, after `adb kill-server`, and only when it failed with "Resource
\* busy"; any other failure, and a failure of the retry, is the command's
\* error, with no second retry and no enumeration of the server.
UsbCase == a_serial = None /\ a_env.usb = "found"

UsbOutcome ==
    CASE a_env.usb_open = "ok" -> Route(<<"usb">>, "ok")
      [] a_env.usb_open = "busy" /\ a_env.usb_retry = "ok" ->
             Route(<<"kill-server", "usb">>, "ok")
      [] a_env.usb_open = "busy" /\ a_env.usb_retry # "ok" ->
             Route(<<"kill-server">>, "Resource busy")
      [] OTHER -> Route(<<>>, a_env.usb_open)

C26_UsbRetryOnce ==
    /\ [](UsbCase /\ a_pc = "retry" =>
            a_env.usb_open = "busy" /\ a_route = Route(<<"kill-server">>, "none"))
    /\ [](UsbCase /\ a_pc = "returned" => a_route = UsbOutcome)
    /\ [][a_pc = "retry" => a_pc' = "returned"]_vars

\* C26 witness: the first open failed busy, the server was killed and the
\* retry opened the device
C26_Witness ==
    /\ UsbCase
    /\ a_pc = "returned"
    /\ a_env.usb_open = "busy"
    /\ a_route = Route(<<"kill-server", "usb">>, "ok")

\* C27 (SpecTier): a legacy-syslog cycle starts at the first candidate and
\* walks them in order; the first candidate whose output gives an entry ends
\* the walk and its entries are the cycle's batch; a candidate that fails or
\* gives no entry is passed over; only when the last one is passed over is
\* the cycle a failure.  The entries appended in a cycle come from one
\* candidate's output.
SyslogProbe == lc_tier = "syslog" /\ lc_pc = "query"

C27_FirstYieldingCandidate ==
    /\ [][(lc_pc # "query" /\ lc_pc' = "query") => lc_path' = 1]_vars
    /\ [][(SyslogProbe /\ lc_yield') =>
             /\ lc_path' = lc_path /\ lc_pc' = "lock" /\ lc_res' = "ok"
             /\ lc_batch' # <<>>
             /\ \A i \in 1..Len(lc_batch') : ~Synthetic(lc_batch'[i])]_vars
    /\ [][(SyslogProbe /\ ~lc_yield' /\ lc_path < Len(SyslogPaths)) =>
             lc_path' = lc_path + 1 /\ lc_pc' = "query" /\ lc_batch' = <<>>]_vars
    /\ [][(SyslogProbe /\ ~lc_yield' /\ lc_path = Len(SyslogPaths)) =>
             /\ lc_res' = "err" /\ lc_pc' = "lock"
             /\ lc_batch' = <<ErrorEntry("syslog", lc_cyc)>>]_vars
    /\ [](lc_tier = "syslog" =>
            /\ lc_path \in 1..Len(SyslogPaths)
            /\ \A i, j \in 1..Len(lc_pushed) :
                  i < j => lc_pushed[i].idx < lc_pushed[j].idx)

\* C27 witness: the first candidate's command failed, the second printed no
\* line that parses, and the entries of the third were appended
C27_Witness ==
    /\ lc_tier = "syslog"
    /\ lc_pc = "sleep"
    /\ lc_path = 3
    /\ lc_fail
    /\ lc_res = "ok"
    /\ Len(lc_pushed) = 2

\* C29 (SpecCollect): execute_multiple_commands gives one result per command,
\* in the order of the commands, the output of a command that succeeded and
\* an "Error: ..." text for one that failed, and never an error of its own;
\* the batched collection reads results[0..7] of eight results and does not
\* fail on them.
BatchResults == ExecuteMultipleCommands(BatchAnswers(c_env))

C29_OneResultPerCommand ==
    (c_session /\ c_pc = "done") =>
        /\ Len(BatchResults) = Len(BatchAnswers(c_env))
        /\ Len(BatchResults) = 8
        /\ \A i \in 1..Len(BatchResults) :
              LET a == BatchAnswers(c_env)[i]
              IN  CASE a.st = "ok" -> BatchResults[i] = Trim(a.out)
                    [] a.st = "exit" ->
                         BatchResults[i] = "Error: " \o ExitStatusMessage
                    [] OTHER -> BatchResults[i] = "Error: " \o ChannelMessage
        /\ c_out.status # "err"
        /\ c_out.status = "panic" => SplitWhitespace(BatchResults[1]) = <<>>

\* C29 witness: a batch in which /proc/cpuinfo failed and the channel of
\* the device-tree model broke, collected to the end
C29_Witness ==
    /\ c_session
    /\ c_pc = "done"
    /\ c_env.cpuinfo.st = "exit"
    /\ c_env.model.st = "down"
    /\ c_out.status = "ok"

\* C30 (SpecSession): from the moment start_log_stream has the session lock
\* until its stream ends it keeps the lock, and while it does no
\* execute_command on the session moves: none acquires the session, opens a
\* channel or completes, so a command issued during the stream completes
\* only after its end, and never if the stream never ends.
StreamActive == ss_pc["stream"] \in {"locked", "tail"}

C30_StreamBlocksCommands ==
    /\ [](StreamActive => ss_lock = "stream")
    /\ [][StreamActive =>
             \A c \in CommandCallers :
                ss_pc'[c] = ss_pc[c] /\ ss_left'[c] = ss_left[c]]_vars
    /\ [][(ss_lock = "stream" /\ ss_lock' # "stream") =>
             ss_pc'["stream"] = "done"]_vars

\* C30 witness: the stream has read data and is still open while a caller
\* that completed a command before the stream began waits with its next one
C30_Witness ==
    /\ ss_pc["stream"] = "tail"
    /\ ss_left["stream"] < MaxSessionCommands
    /\ ss_pc["command"] = "call"
    /\ ss_left["command"] = MaxSessionCommands - 1

====
